---------------------------- MODULE Spec2Model ----------------------------
(***************************************************************************)
(* MidiTok: the pooled (CPWord) and the interleaved (MuMIDI) tokenizers.    *)
(*                                                                         *)
(* A token string "Type_Value" is the record [type, value]: split("_") is  *)
(* the pair of its fields.  A value is a tuple of integers: <<>> is the    *)
(* text "None", <<60>> the text "60", <<1, 0, 8>> the text "1.0.8" and     *)
(* <<3, 4>> the text "3/4"; int(), float() and the time-signature parser   *)
(* raise ValueError on a tuple that is not of their shape.  Only the       *)
(* Family sub-field holds a word ("Metric", "Note", "None").  A Python     *)
(* list is a sequence: Python index i is index i + 1 here.                  *)
(***************************************************************************)
EXTENDS Integers, Sequences, FiniteSets, TLC

VARIABLES
    tokenizer,          \* the class of the tokenizer: "CPWord" or "MuMIDI"
    config,             \* self.config (and the tables built from it)
    time_division,      \* self.time_division
    max_bar_embedding,  \* self.config.additional_params["max_bar_embedding"]
    vocab,              \* self.vocab, the sub-vocabularies (MuMIDI)
    pc,                 \* the method running, "idle" between calls
    events,             \* CPWord._add_time_events: its argument
    midi,               \* MuMIDI._midi_to_tokens: its argument
    enc,                \* the locals of the running encode call
    tokens,             \* the token sequence(s): encode's result, decode's argument
    dec,                \* the locals of the running decode call
    decoded,            \* the piece decode returned
    val,                \* the locals of the running _tokens_errors call
    raised,             \* the exception that ended the running call, "" if none
    calls               \* number of encode calls made on this tokenizer

vars == <<tokenizer, config, time_division, max_bar_embedding, vocab, pc, events,
          midi, enc, tokens, dec, decoded, val, raised, calls>>

-----------------------------------------------------------------------------
(* Bounds of the model *)

\* number of items (notes, tempo, time-signature and chord changes) of a piece
MaxItems == 3
\* last tick at which an item of a piece may start
MaxTick == 4

-----------------------------------------------------------------------------
(* Sequences *)

Max(a, b) == IF a >= b THEN a ELSE b

Abs(x) == IF x < 0 THEN 0 - x ELSE x

Last(s) == s[Len(s)]

RECURSIVE SumSeq(_)
SumSeq(s) == IF s = <<>> THEN 0 ELSE Head(s) + SumSeq(Tail(s))

RECURSIVE Flatten(_)
Flatten(ss) == IF ss = <<>> THEN <<>> ELSE Head(ss) \o Flatten(Tail(ss))

-----------------------------------------------------------------------------
(* Token strings *)

None == <<>>

\* f"{type}_{value}"
Tk(type, value) == [type |-> type, value |-> value]

\* str(event): an Event prints as its type and value, its time is dropped
Str(event) == Tk(event.type_, event.value)

\* int(text), float(text): defined on the text of one number
IsNumber(value) == Len(value) = 1

\* the text "n/d" of a time signature, "b.p.r" of a duration
IsTimeSig(value) == Len(value) = 2
IsDuration(value) == Len(value) = 3 /\ value[3] > 0

-----------------------------------------------------------------------------
(* Quantization tables *)

TIME_SIGNATURE == <<4, 4>>

\* (beat, pos, res) for beat in range(lo, hi) for pos in range(res)
RangeTuples(r) ==
    [k \in 1..((r[2] - r[1]) * r[3]) |->
        <<r[1] + (k - 1) \div r[3], (k - 1) % r[3], r[3]>>]

RECURSIVE AllRangeTuples(_)
AllRangeTuples(beat_res) ==
    IF beat_res = <<>> THEN <<>>
    ELSE RangeTuples(Head(beat_res)) \o AllRangeTuples(Tail(beat_res))

\* the duration (and rest) table: every tuple of the ranges but the first
\* (of length 0), then the closing entry (last beat, 0, last resolution)
create_durations_tuples(beat_res) ==
    Tail(AllRangeTuples(beat_res))
        \o << <<Last(beat_res)[2], 0, Last(beat_res)[3]>> >>

\* the tick length of the entry "beat.pos.res"
token_duration_to_ticks(d, td) == ((d[1] * d[3] + d[2]) * td) \div d[3]

durations == create_durations_tuples(config.beat_res)
rests == create_durations_tuples(config.beat_res_rest)

durations_ticks(td) ==
    [i \in 1..Len(durations) |-> token_duration_to_ticks(durations[i], td)]
rests_ticks(td) ==
    [i \in 1..Len(rests) |-> token_duration_to_ticks(rests[i], td)]

min_rest == rests_ticks(time_division)[1]

\* np.argmin(bins - x): the index of the first minimum of the signed distance
ArgMinAbs_Signed(bins, x) ==
    CHOOSE i \in 1..Len(bins) :
        /\ \A j \in 1..Len(bins) : bins[i] - x <= bins[j] - x
        /\ \A j \in 1..(i - 1) : bins[j] - x > bins[i] - x

\* np.argmin(np.abs(bins - x)): the index of the first minimum
ArgMinAbs(bins, x) ==
    CHOOSE i \in 1..Len(bins) :
        /\ \A j \in 1..Len(bins) : Abs(bins[i] - x) <= Abs(bins[j] - x)
        /\ \A j \in 1..(i - 1) : Abs(bins[j] - x) > Abs(bins[i] - x)

\* the entry of the duration table nearest to a length in ticks
NearestDuration(ticks, td) == durations[ArgMinAbs(durations_ticks(td), ticks)]

\* np.where(bins - x <= 0)[0][-1]: the index of the last entry <= x
LastNotAbove(bins, x) ==
    CHOOSE i \in 1..Len(bins) :
        /\ bins[i] <= x
        /\ \A j \in (i + 1)..Len(bins) : bins[j] > x

\* the greedy split of a gap into rest entries: <<values, tick lengths>>
RECURSIVE ticks_to_rest_tokens(_, _)
ticks_to_rest_tokens(duration, td) ==
    IF duration < rests_ticks(td)[1] THEN << <<>>, <<>> >>
    ELSE LET index == LastNotAbove(rests_ticks(td), duration)
             more == ticks_to_rest_tokens(duration - rests_ticks(td)[index], td)
         IN  << <<rests[index]>> \o more[1],
                <<rests_ticks(td)[index]>> \o more[2] >>

compute_ticks_per_bar(time_sig, td) == (td * 4 * time_sig[1]) \div time_sig[2]

MaxBeatRes ==
    LET all == {config.beat_res[i][3] : i \in 1..Len(config.beat_res)}
    IN  CHOOSE m \in all : \A r \in all : r <= m


-----------------------------------------------------------------------------
(* CPWord: the compound token *)

\* an Event of the encoder
Ev(type_, value, time) == [type_ |-> type_, value |-> value, time |-> time]

\* the sub-fields of a compound token, in order
token_types ==
    <<"Family", "Position", "Pitch", "Velocity", "Duration">>
        \o (IF config.use_programs THEN <<"Program">> ELSE <<>>)
        \o (IF config.use_chords THEN <<"Chord">> ELSE <<>>)
        \o (IF config.use_rests THEN <<"Rest">> ELSE <<>>)
        \o (IF config.use_tempos THEN <<"Tempo">> ELSE <<>>)
        \o (IF config.use_time_signatures THEN <<"TimeSig">> ELSE <<>>)

\* self.vocab_types_idx[type] (a Python index)
vocab_types_idx(type) ==
    IF type = "Bar" THEN 1
    ELSE (CHOOSE i \in 1..Len(token_types) : token_types[i] = type) - 1

\* the keyword arguments of __create_cp_token, at their defaults
CpArgs(time) ==
    [time |-> time, bar |-> FALSE, pos |-> None, pitch |-> None, vel |-> None,
     dur |-> None, chord |-> None, rest |-> None, tempo |-> None,
     time_signature |-> None, program |-> None]

SetField(cp_token, idx, event) == [cp_token EXCEPT ![idx + 1] = event]

\* a compound token whose Family stays Metric when it carries a note
create_cp_token_FamilyKept(a) ==
    LET blank == [i \in 1..Len(token_types) |->
                    IF i = 1 THEN Ev("Family", "Metric", a.time)
                    ELSE Ev("Ignore", None, a.time)]
        ev(type_, value) == Ev(type_, value, a.time)
    IN  IF a.bar THEN
            LET t == SetField(blank, 1, ev("Bar", None))
            IN  IF a.time_signature # None
                THEN SetField(t, vocab_types_idx("TimeSig"),
                              ev("TimeSig", a.time_signature))
                ELSE t
        ELSE IF a.pos # None THEN
            LET t1 == SetField(blank, 1, ev("Position", a.pos))
                t2 == IF a.chord # None
                      THEN SetField(t1, vocab_types_idx("Chord"), ev("Chord", a.chord))
                      ELSE t1
            IN  IF a.tempo # None
                THEN SetField(t2, vocab_types_idx("Tempo"), ev("Tempo", a.tempo))
                ELSE t2
        ELSE IF a.rest # None THEN
            SetField(blank, vocab_types_idx("Rest"), ev("Rest", a.rest))
        ELSE IF a.pitch # None THEN
            LET t1 == blank
                t2 == SetField(t1, 2, ev("Pitch", a.pitch))
                t3 == SetField(t2, 3, ev("Velocity", a.vel))
                t4 == SetField(t3, 4, ev("Duration", a.dur))
            IN  IF a.program # None
                THEN SetField(t4, vocab_types_idx("Program"), ev("Program", a.program))
                ELSE t4
        ELSE blank

\* __create_cp_token: the compound token of the given content
create_cp_token(a) ==
    LET blank == [i \in 1..Len(token_types) |->
                    IF i = 1 THEN Ev("Family", "Metric", a.time)
                    ELSE Ev("Ignore", None, a.time)]
        ev(type_, value) == Ev(type_, value, a.time)
    IN  IF a.bar THEN
            LET t == SetField(blank, 1, ev("Bar", None))
            IN  IF a.time_signature # None
                THEN SetField(t, vocab_types_idx("TimeSig"),
                              ev("TimeSig", a.time_signature))
                ELSE t
        ELSE IF a.pos # None THEN
            LET t1 == SetField(blank, 1, ev("Position", a.pos))
                t2 == IF a.chord # None
                      THEN SetField(t1, vocab_types_idx("Chord"), ev("Chord", a.chord))
                      ELSE t1
            IN  IF a.tempo # None
                THEN SetField(t2, vocab_types_idx("Tempo"), ev("Tempo", a.tempo))
                ELSE t2
        ELSE IF a.rest # None THEN
            SetField(blank, vocab_types_idx("Rest"), ev("Rest", a.rest))
        ELSE IF a.pitch # None THEN
            LET t1 == SetField(blank, 0, ev("Family", "Note"))
                t2 == SetField(t1, 2, ev("Pitch", a.pitch))
                t3 == SetField(t2, 3, ev("Velocity", a.vel))
                t4 == SetField(t3, 4, ev("Duration", a.dur))
            IN  IF a.program # None
                THEN SetField(t4, vocab_types_idx("Program"), ev("Program", a.program))
                ELSE t4
        ELSE blank

-----------------------------------------------------------------------------
(* CPWord._add_time_events *)

NoteTypes == {"Pitch", "Velocity", "Duration", "PitchBend", "Pedal"}

\* the event a scan for `type_` stops at: the first one of that type that no
\* note event precedes, 0 if there is none
ScanFirst(evs, type_) ==
    LET stops == {i \in 1..Len(evs) : evs[i].type_ \in NoteTypes \cup {type_}}
    IN  IF stops = {} THEN 0
        ELSE LET first == CHOOSE i \in stops : \A j \in stops : i <= j
             IN  IF evs[first].type_ = type_ THEN first ELSE 0

\* the locals after the two scans that precede the loop
AddTimeEventsInit(evs) ==
    LET ts == IF config.use_time_signatures THEN ScanFirst(evs, "TimeSig") ELSE 0
        tp == IF config.use_tempos THEN ScanFirst(evs, "Tempo") ELSE 0
        current_time_sig == IF ts = 0 THEN TIME_SIGNATURE ELSE evs[ts].value
        default == IF config.log_tempos
                   THEN config.tempos[ArgMinAbs(config.tempos, config.default_tempo)]
                   ELSE config.default_tempo
    IN  [e |-> 1,
         all_events |-> <<>>,
         current_bar |-> -1,
         bar_at_last_ts_change |-> 0,
         previous_tick |-> -1,
         previous_note_end |-> 0,
         tick_at_last_ts_change |-> 0,
         tick_at_current_bar |-> 0,
         current_time_sig |-> current_time_sig,
         current_tempo |-> IF tp = 0 THEN default ELSE evs[tp].value[1],
         current_program |-> None,
         ticks_per_bar |-> compute_ticks_per_bar(current_time_sig, time_division)]

\* (Rest): the gap since the tick of the previous event, as Rest tokens
RestPart_FromLastTick(s, event) ==
    IF ~(config.use_rests /\ event.time - s.previous_note_end >= min_rest) THEN s
    ELSE
    LET start == Max(s.previous_tick, 0)
        rest_values == ticks_to_rest_tokens(event.time - start, time_division)
        n == Len(rest_values[1])
        at(k) == start + SumSeq(SubSeq(rest_values[2], 1, k - 1))
        rest_tokens == [k \in 1..n |->
            create_cp_token([CpArgs(at(k)) EXCEPT !.rest = rest_values[1][k]])]
        previous_tick == start + SumSeq(rest_values[2])
        real_current_bar ==
            s.bar_at_last_ts_change
                + (previous_tick - s.tick_at_last_ts_change) \div s.ticks_per_bar
        s1 == [s EXCEPT !.previous_tick = previous_tick,
                        !.all_events = @ \o rest_tokens]
    IN  IF real_current_bar > s.current_bar
        THEN LET current_bar == IF s.current_bar = -1 THEN 0 ELSE s.current_bar
             IN  [s1 EXCEPT
                    !.tick_at_current_bar =
                        @ + (real_current_bar - current_bar) * s.ticks_per_bar,
                    !.current_bar = real_current_bar]
        ELSE s1

\* (Rest): the gap since the last note end, as Rest tokens
RestPart(s, event) ==
    IF ~(config.use_rests /\ event.time - s.previous_note_end >= min_rest) THEN s
    ELSE
    LET start == s.previous_note_end
        rest_values == ticks_to_rest_tokens(event.time - start, time_division)
        n == Len(rest_values[1])
        at(k) == start + SumSeq(SubSeq(rest_values[2], 1, k - 1))
        rest_tokens == [k \in 1..n |->
            create_cp_token([CpArgs(at(k)) EXCEPT !.rest = rest_values[1][k]])]
        previous_tick == start + SumSeq(rest_values[2])
        real_current_bar ==
            s.bar_at_last_ts_change
                + (previous_tick - s.tick_at_last_ts_change) \div s.ticks_per_bar
        s1 == [s EXCEPT !.previous_tick = previous_tick,
                        !.all_events = @ \o rest_tokens]
    IN  IF real_current_bar > s.current_bar
        THEN LET current_bar == IF s.current_bar = -1 THEN 0 ELSE s.current_bar
             IN  [s1 EXCEPT
                    !.tick_at_current_bar =
                        @ + (real_current_bar - current_bar) * s.ticks_per_bar,
                    !.current_bar = real_current_bar]
        ELSE s1

\* Bar: the Bar tokens, the tick of the current bar left alone
BarPart_KeepBarTick(s, event) ==
    LET num_new_bars ==
            s.bar_at_last_ts_change
                + (event.time - s.tick_at_last_ts_change) \div s.ticks_per_bar
                - s.current_bar
        time_sig_arg(i) ==
            IF i = num_new_bars - 1 /\ event.type_ = "TimeSig" THEN event.value
            ELSE IF config.use_time_signatures THEN s.current_time_sig
            ELSE None
        bar_tokens == [k \in 1..num_new_bars |->
            create_cp_token(
                [CpArgs((s.current_bar + k) * s.ticks_per_bar) EXCEPT
                    !.bar = TRUE, !.time_signature = time_sig_arg(k - 1)])]
        current_bar == s.current_bar + num_new_bars
    IN  IF num_new_bars >= 1
        THEN [s EXCEPT
                !.all_events = @ \o bar_tokens,
                !.current_bar = current_bar]
        ELSE s

\* Bar: a single Bar token for the bars between the bar cursor and the event
BarPart_OneBar(s, event) ==
    LET num_new_bars ==
            s.bar_at_last_ts_change
                + (event.time - s.tick_at_last_ts_change) \div s.ticks_per_bar
                - s.current_bar
        time_sig_arg(i) ==
            IF i = num_new_bars - 1 /\ event.type_ = "TimeSig" THEN event.value
            ELSE IF config.use_time_signatures THEN s.current_time_sig
            ELSE None
        bar_tokens == [k \in 1..1 |->
            create_cp_token(
                [CpArgs((s.current_bar + k) * s.ticks_per_bar) EXCEPT
                    !.bar = TRUE, !.time_signature = time_sig_arg(k - 1)])]
        current_bar == s.current_bar + num_new_bars
    IN  IF num_new_bars >= 1
        THEN [s EXCEPT
                !.all_events = @ \o bar_tokens,
                !.current_bar = current_bar,
                !.tick_at_current_bar =
                    s.tick_at_last_ts_change
                        + (current_bar - s.bar_at_last_ts_change) * s.ticks_per_bar]
        ELSE s

\* Bar: one Bar token per bar between the bar cursor and the event
BarPart(s, event) ==
    LET num_new_bars ==
            s.bar_at_last_ts_change
                + (event.time - s.tick_at_last_ts_change) \div s.ticks_per_bar
                - s.current_bar
        time_sig_arg(i) ==
            IF i = num_new_bars - 1 /\ event.type_ = "TimeSig" THEN event.value
            ELSE IF config.use_time_signatures THEN s.current_time_sig
            ELSE None
        bar_tokens == [k \in 1..num_new_bars |->
            create_cp_token(
                [CpArgs((s.current_bar + k) * s.ticks_per_bar) EXCEPT
                    !.bar = TRUE, !.time_signature = time_sig_arg(k - 1)])]
        current_bar == s.current_bar + num_new_bars
    IN  IF num_new_bars >= 1
        THEN [s EXCEPT
                !.all_events = @ \o bar_tokens,
                !.current_bar = current_bar,
                !.tick_at_current_bar =
                    s.tick_at_last_ts_change
                        + (current_bar - s.bar_at_last_ts_change) * s.ticks_per_bar]
        ELSE s

\* Position: the ticks left in the bar of the event
PositionPart_TicksLeft(s, event) ==
    IF event.type_ = "TimeSig" THEN s
    ELSE LET pos_index == s.tick_at_current_bar + s.ticks_per_bar - event.time
         IN  [s EXCEPT !.all_events = Append(@, create_cp_token(
                [CpArgs(event.time) EXCEPT
                    !.pos = <<pos_index>>,
                    !.chord = IF event.type_ = "Chord" THEN event.value ELSE None,
                    !.tempo = IF config.use_tempos
                              THEN <<s.current_tempo>> ELSE None]))]

\* Position: the offset of the event in its bar, for a TimeSig event too
PositionPart_EveryEvent(s, event) ==
    LET pos_index == event.time - s.tick_at_current_bar
    IN  [s EXCEPT !.all_events = Append(@, create_cp_token(
            [CpArgs(event.time) EXCEPT
                !.pos = <<pos_index>>,
                !.chord = IF event.type_ = "Chord" THEN event.value ELSE None,
                !.tempo = IF config.use_tempos
                          THEN <<s.current_tempo>> ELSE None]))]

\* Position: the offset of the event in its bar
PositionPart(s, event) ==
    IF event.type_ = "TimeSig" THEN s
    ELSE LET pos_index == event.time - s.tick_at_current_bar
         IN  [s EXCEPT !.all_events = Append(@, create_cp_token(
                [CpArgs(event.time) EXCEPT
                    !.pos = <<pos_index>>,
                    !.chord = IF event.type_ = "Chord" THEN event.value ELSE None,
                    !.tempo = IF config.use_tempos
                              THEN <<s.current_tempo>> ELSE None]))]

\* the time tokens without the test on the tick of the previous event
TimePart_EveryEvent(s, event) ==
    [PositionPart(BarPart(RestPart(s, event), event), event)
        EXCEPT !.previous_tick = event.time]

\* the time tokens of an event at a tick other than the previous one
TimePart(s, event) ==
    IF event.time = s.previous_tick THEN s
    ELSE [PositionPart(BarPart(RestPart(s, event), event), event)
            EXCEPT !.previous_tick = event.time]

\* a TimeSig event moves the grid anchor and leaves previous_tick alone
TimeSigPart_KeepTick(s, event) ==
    IF event.type_ # "TimeSig" THEN s
    ELSE [s EXCEPT
            !.current_time_sig = event.value,
            !.bar_at_last_ts_change =
                @ + (event.time - s.tick_at_last_ts_change) \div s.ticks_per_bar,
            !.tick_at_last_ts_change = event.time,
            !.ticks_per_bar = compute_ticks_per_bar(event.value, time_division)]

\* a TimeSig event moves the grid anchor, after the time tokens
TimeSigPart(s, event) ==
    IF event.type_ # "TimeSig" THEN s
    ELSE [s EXCEPT
            !.current_time_sig = event.value,
            !.bar_at_last_ts_change =
                @ + (event.time - s.tick_at_last_ts_change) \div s.ticks_per_bar,
            !.tick_at_last_ts_change = event.time,
            !.ticks_per_bar = compute_ticks_per_bar(event.value, time_division),
            !.previous_tick = @ - 1]

\* a Note token whose Velocity and Duration are taken in the other order
NotePart_DurationFirst(s, event, evs) ==
    IF event.type_ = "Pitch" /\ (s.e - 1) + 2 < Len(evs)
    THEN [s EXCEPT
            !.all_events = Append(@, create_cp_token(
                [CpArgs(event.time) EXCEPT
                    !.pitch = event.value,
                    !.vel = evs[s.e + 2].value,
                    !.dur = evs[s.e + 1].value,
                    !.program = s.current_program])),
            !.previous_note_end = Max(@, event.desc)]
    ELSE IF event.type_ \in {"Program", "Tempo", "TimeSig", "Chord"}
    THEN [s EXCEPT !.previous_note_end = Max(@, event.time)]
    ELSE s

\* the Note token of a Pitch event and the end of the latest note
NotePart(s, event, evs) ==
    IF event.type_ = "Pitch" /\ (s.e - 1) + 2 < Len(evs)
    THEN [s EXCEPT
            !.all_events = Append(@, create_cp_token(
                [CpArgs(event.time) EXCEPT
                    !.pitch = event.value,
                    !.vel = evs[s.e + 1].value,
                    !.dur = evs[s.e + 2].value,
                    !.program = s.current_program])),
            !.previous_note_end = Max(@, event.desc)]
    ELSE IF event.type_ \in {"Program", "Tempo", "TimeSig", "Chord"}
    THEN [s EXCEPT !.previous_note_end = Max(@, event.time)]
    ELSE s

\* one turn of the loop, on the event at index s.e
AddTimeEventsStep(s, evs) ==
    LET event == evs[s.e]
        s0 == IF event.type_ = "Tempo"
              THEN [s EXCEPT !.current_tempo = event.value[1]]
              ELSE s
        done == IF event.type_ = "Program"
                THEN [s EXCEPT !.current_program = event.value]
                ELSE NotePart(TimeSigPart(TimePart(s0, event), event), event, evs)
    IN  [done EXCEPT !.e = @ + 1]

-----------------------------------------------------------------------------
(* CPWord._tokens_to_midi *)

one_token_stream == config.use_programs

Note(time, duration, pitch, velocity) ==
    [time |-> time, duration |-> duration, pitch |-> pitch, velocity |-> velocity]

Track(key, program, is_drum) ==
    [key |-> key, program |-> program, is_drum |-> is_drum, notes |-> <<>>]

\* tok.split("_")[1] of the Family sub-field, and the fields of another one
Family(compound_token) == compound_token[1].value
Field(compound_token, idx) == compound_token[idx + 1]

HasTrack(tracks, prog) == \E k \in 1..Len(tracks) : tracks[k].key = prog

\* check_inst(prog): the track of a program, made on its first note
check_inst(tracks, prog) ==
    IF HasTrack(tracks, prog) THEN tracks
    ELSE Append(tracks, Track(prog, IF prog = -1 THEN 0 ELSE prog, prog = -1))

AppendNote(tracks, prog, note) ==
    [k \in 1..Len(tracks) |->
        IF tracks[k].key = prog
        THEN [tracks[k] EXCEPT !.notes = Append(@, note)]
        ELSE tracks[k]]

\* the locals before the loop over the sequences, any time division taken
TokensToMidiInit_AnyDivision(td, programs) ==
    [si |-> 1, i |-> 0,
     exc |-> "",
     time_division |-> td,
     programs |-> programs,
     ticks_per_sample |-> td \div MaxBeatRes,
     tracks |-> <<>>,
     midi_tracks |-> <<>>,
     tempo_changes |-> << <<-1, -1>> >>,
     time_signature_changes |-> <<>>,
     current_tick |-> 0,
     tick_at_last_ts_change |-> 0,
     tick_at_current_bar |-> 0,
     current_bar |-> -1,
     bar_at_last_ts_change |-> 0,
     current_program |-> 0,
     current_instrument |-> None,
     previous_note_end |-> 0,
     current_time_sig |-> None,
     ticks_per_bar |-> 0]

\* the locals before the loop over the sequences; a time division that the
\* largest beat resolution does not divide raises ValueError
TokensToMidiInit(td, programs) ==
    [si |-> 1, i |-> 0,
     exc |-> IF td % MaxBeatRes # 0 THEN "ValueError" ELSE "",
     time_division |-> td,
     programs |-> programs,
     ticks_per_sample |-> td \div MaxBeatRes,
     tracks |-> <<>>,
     midi_tracks |-> <<>>,
     tempo_changes |-> << <<-1, -1>> >>,
     time_signature_changes |-> <<>>,
     current_tick |-> 0,
     tick_at_last_ts_change |-> 0,
     tick_at_current_bar |-> 0,
     current_bar |-> -1,
     bar_at_last_ts_change |-> 0,
     current_program |-> 0,
     current_instrument |-> None,
     previous_note_end |-> 0,
     current_time_sig |-> None,
     ticks_per_bar |-> 0]

\* the first time signature: that of the first Bar token among the leading
\* Metric tokens of the first sequence, if any; exc is "ValueError" if that
\* token's TimeSig sub-field is not the text of a time signature
FirstTimeSig(seq) ==
    LET stops == {k \in 1..Len(seq) :
                    Family(seq[k]) # "Metric" \/ Field(seq[k], 1).type = "Bar"}
        k == CHOOSE x \in stops : \A y \in stops : x <= y
        ts == Field(seq[k], vocab_types_idx("TimeSig")).value
    IN  IF stops = {} THEN [exc |-> "", found |-> <<>>]
        ELSE IF Family(seq[k]) # "Metric" THEN [exc |-> "", found |-> <<>>]
        ELSE IF IsTimeSig(ts) THEN [exc |-> "", found |-> <<ts>>]
        ELSE [exc |-> "ValueError", found |-> <<>>]

\* the head of the loop over the sequences, for the sequence d.si
SeqStart(d, seq) ==
    LET first == IF d.si = 1 /\ config.use_time_signatures
                 THEN FirstTimeSig(seq) ELSE [exc |-> "", found |-> <<>>]
        tsc == IF d.si # 1 THEN d.time_signature_changes
               ELSE IF first.found = <<>> THEN << <<0>> \o TIME_SIGNATURE >>
               ELSE << <<0>> \o first.found[1] >>
        d1 == [d EXCEPT
                !.i = 1,
                !.time_signature_changes = tsc,
                !.current_time_sig = tsc[1],
                !.ticks_per_bar =
                    compute_ticks_per_bar(<<tsc[1][2], tsc[1][3]>>, d.time_division)]
        prog == IF d.programs # None THEN d.programs[d.si]
                ELSE <<d.current_program, FALSE>>
    IN  IF first.exc # "" THEN [d EXCEPT !.exc = first.exc]
        ELSE IF one_token_stream THEN d1
        ELSE [d1 EXCEPT
                !.current_tick = 0,
                !.tick_at_last_ts_change = 0,
                !.tick_at_current_bar = 0,
                !.current_bar = -1,
                !.bar_at_last_ts_change = 0,
                !.previous_note_end = 0,
                !.current_program = prog[1],
                !.current_instrument = <<Track(prog[1], prog[1], prog[2])>>]

\* a Note token, the track of its program made before the sub-fields are looked at
DecodeNote_TrackFirst(d, compound_token) ==
    LET pad_range_idx == IF config.use_programs THEN 6 ELSE 5
        pitch == Field(compound_token, 2).value[1]
        vel == Field(compound_token, 3).value[1]
        duration ==
            token_duration_to_ticks(Field(compound_token, 4).value, d.time_division)
        current_program == IF config.use_programs
                           THEN Field(compound_token, 5).value[1]
                           ELSE d.current_program
        new_note == Note(d.current_tick, duration, pitch, vel)
    IN  IF \E k \in 2..(pad_range_idx - 1) : Field(compound_token, k).value = None
        THEN IF one_token_stream /\ Field(compound_token, 5).value # None
             THEN [d EXCEPT !.tracks = check_inst(@, current_program)]
             ELSE d
        ELSE [d EXCEPT
                !.current_program = current_program,
                !.tracks = IF one_token_stream
                           THEN AppendNote(check_inst(@, current_program),
                                           current_program, new_note)
                           ELSE @,
                !.current_instrument =
                    IF one_token_stream THEN @
                    ELSE <<[@[1] EXCEPT !.notes = Append(@, new_note)]>>,
                !.previous_note_end = Max(@, d.current_tick + duration)]

\* a Note token
DecodeNote(d, compound_token) ==
    LET pad_range_idx == IF config.use_programs THEN 6 ELSE 5
        pitch == Field(compound_token, 2).value[1]
        vel == Field(compound_token, 3).value[1]
        duration ==
            token_duration_to_ticks(Field(compound_token, 4).value, d.time_division)
        current_program == IF config.use_programs
                           THEN Field(compound_token, 5).value[1]
                           ELSE d.current_program
        new_note == Note(d.current_tick, duration, pitch, vel)
    IN  IF \E k \in 2..(pad_range_idx - 1) : Field(compound_token, k).value = None
        THEN d
        ELSE [d EXCEPT
                !.current_program = current_program,
                !.tracks = IF one_token_stream
                           THEN AppendNote(check_inst(@, current_program),
                                           current_program, new_note)
                           ELSE @,
                !.current_instrument =
                    IF one_token_stream THEN @
                    ELSE <<[@[1] EXCEPT !.notes = Append(@, new_note)]>>,
                !.previous_note_end = Max(@, d.current_tick + duration)]

\* a Bar token whose time signature leaves the length of the bars alone
DecodeBar_KeepBarLength(d, compound_token) ==
    LET current_bar == d.current_bar + 1
        current_tick == IF current_bar > 0
                        THEN d.tick_at_current_bar + d.ticks_per_bar
                        ELSE d.current_tick
        d1 == [d EXCEPT !.current_bar = current_bar,
                        !.current_tick = current_tick,
                        !.tick_at_current_bar = current_tick]
        ts == Field(compound_token, vocab_types_idx("TimeSig")).value
    IN  IF ~config.use_time_signatures THEN d1
        ELSE IF ~IsTimeSig(ts) THEN [d1 EXCEPT !.exc = "ValueError"]
        ELSE IF ts[1] # d.current_time_sig[2] \/ ts[2] # d.current_time_sig[3]
        THEN [d1 EXCEPT
                !.current_time_sig = <<current_tick>> \o ts,
                !.time_signature_changes =
                    IF d.si = 1 THEN Append(@, <<current_tick>> \o ts) ELSE @,
                !.tick_at_last_ts_change = current_tick,
                !.bar_at_last_ts_change = current_bar]
        ELSE d1

\* a Bar token
DecodeBar(d, compound_token) ==
    LET current_bar == d.current_bar + 1
        current_tick == IF current_bar > 0
                        THEN d.tick_at_current_bar + d.ticks_per_bar
                        ELSE d.current_tick
        d1 == [d EXCEPT !.current_bar = current_bar,
                        !.current_tick = current_tick,
                        !.tick_at_current_bar = current_tick]
        ts == Field(compound_token, vocab_types_idx("TimeSig")).value
    IN  IF ~config.use_time_signatures THEN d1
        ELSE IF ~IsTimeSig(ts) THEN [d1 EXCEPT !.exc = "ValueError"]
        ELSE IF ts[1] # d.current_time_sig[2] \/ ts[2] # d.current_time_sig[3]
        THEN [d1 EXCEPT
                !.current_time_sig = <<current_tick>> \o ts,
                !.time_signature_changes =
                    IF d.si = 1 THEN Append(@, <<current_tick>> \o ts) ELSE @,
                !.tick_at_last_ts_change = current_tick,
                !.bar_at_last_ts_change = current_bar,
                !.ticks_per_bar = compute_ticks_per_bar(ts, d.time_division)]
        ELSE d1

\* a Position token whose tempo is taken in every sequence
DecodePosition_AnySequence(d, compound_token) ==
    LET current_tick ==
            d.tick_at_current_bar
                + Field(compound_token, 1).value[1] * d.ticks_per_sample
        d1 == [d EXCEPT
                !.current_bar = IF @ = -1 THEN 0 ELSE @,
                !.current_tick = current_tick]
        tempo == Field(compound_token, vocab_types_idx("Tempo")).value
    IN  IF ~config.use_tempos THEN d1
        ELSE IF ~IsNumber(tempo) THEN [d1 EXCEPT !.exc = "ValueError"]
        ELSE IF tempo[1] # Last(d.tempo_changes)[2]
                /\ current_tick # Last(d.tempo_changes)[1]
        THEN [d1 EXCEPT !.tempo_changes = Append(@, <<current_tick, tempo[1]>>)]
        ELSE d1

\* a Position token whose tempo is recorded at any tick
DecodePosition_AnyTick(d, compound_token) ==
    LET current_tick ==
            d.tick_at_current_bar
                + Field(compound_token, 1).value[1] * d.ticks_per_sample
        d1 == [d EXCEPT
                !.current_bar = IF @ = -1 THEN 0 ELSE @,
                !.current_tick = current_tick]
        tempo == Field(compound_token, vocab_types_idx("Tempo")).value
    IN  IF ~(config.use_tempos /\ d.si = 1) THEN d1
        ELSE IF ~IsNumber(tempo) THEN [d1 EXCEPT !.exc = "ValueError"]
        ELSE IF tempo[1] # Last(d.tempo_changes)[2]
        THEN [d1 EXCEPT !.tempo_changes = Append(@, <<current_tick, tempo[1]>>)]
        ELSE d1

\* a Position token
DecodePosition(d, compound_token) ==
    LET current_tick ==
            d.tick_at_current_bar
                + Field(compound_token, 1).value[1] * d.ticks_per_sample
        d1 == [d EXCEPT
                !.current_bar = IF @ = -1 THEN 0 ELSE @,
                !.current_tick = current_tick]
        tempo == Field(compound_token, vocab_types_idx("Tempo")).value
    IN  IF ~(config.use_tempos /\ d.si = 1) THEN d1
        ELSE IF ~IsNumber(tempo) THEN [d1 EXCEPT !.exc = "ValueError"]
        ELSE IF tempo[1] # Last(d.tempo_changes)[2]
                /\ current_tick # Last(d.tempo_changes)[1]
        THEN [d1 EXCEPT !.tempo_changes = Append(@, <<current_tick, tempo[1]>>)]
        ELSE d1

\* a Rest token counted from the tick of the cursor
DecodeRest_FromTick(d, compound_token) ==
    LET current_tick ==
            d.current_tick
                + token_duration_to_ticks(
                    Field(compound_token, vocab_types_idx("Rest")).value,
                    d.time_division)
        real_current_bar ==
            d.bar_at_last_ts_change
                + (current_tick - d.tick_at_last_ts_change) \div d.ticks_per_bar
        d1 == [d EXCEPT !.current_tick = current_tick]
    IN  IF real_current_bar > d.current_bar
        THEN LET current_bar == IF d.current_bar = -1 THEN 0 ELSE d.current_bar
             IN  [d1 EXCEPT
                    !.tick_at_current_bar =
                        @ + (real_current_bar - current_bar) * d.ticks_per_bar,
                    !.current_bar = real_current_bar]
        ELSE d1

\* a Rest token
DecodeRest(d, compound_token) ==
    LET current_tick ==
            Max(d.previous_note_end, d.current_tick)
                + token_duration_to_ticks(
                    Field(compound_token, vocab_types_idx("Rest")).value,
                    d.time_division)
        real_current_bar ==
            d.bar_at_last_ts_change
                + (current_tick - d.tick_at_last_ts_change) \div d.ticks_per_bar
        d1 == [d EXCEPT !.current_tick = current_tick]
    IN  IF real_current_bar > d.current_bar
        THEN LET current_bar == IF d.current_bar = -1 THEN 0 ELSE d.current_bar
             IN  [d1 EXCEPT
                    !.tick_at_current_bar =
                        @ + (real_current_bar - current_bar) * d.ticks_per_bar,
                    !.current_bar = real_current_bar]
        ELSE d1

\* a Metric token
DecodeMetric(d, compound_token) ==
    LET bar_pos == Field(compound_token, 1).type
        d1 == IF bar_pos = "Bar" THEN DecodeBar(d, compound_token)
              ELSE IF bar_pos = "Position" THEN DecodePosition(d, compound_token)
              ELSE IF config.use_rests
                      /\ Field(compound_token, vocab_types_idx("Rest")).value # None
              THEN DecodeRest(d, compound_token)
              ELSE d
    IN  IF d1.exc # "" THEN d1
        ELSE [d1 EXCEPT !.previous_note_end = Max(@, d1.current_tick)]

\* one turn of the loop over the tokens of a sequence
DecodeToken(d, compound_token) ==
    LET d1 == IF Family(compound_token) = "Note" THEN DecodeNote(d, compound_token)
              ELSE IF Family(compound_token) = "Metric"
              THEN DecodeMetric(d, compound_token)
              ELSE d
    IN  [d1 EXCEPT !.i = @ + 1]

\* the end of the loop over the tokens of the sequence d.si
SeqEnd(d) ==
    [d EXCEPT
        !.si = @ + 1,
        !.i = 0,
        !.midi_tracks = IF one_token_stream THEN @ ELSE @ \o d.current_instrument]

\* the tempo list returned with the mocked entry left in
FinalTempos_MockKept(tempo_changes) ==
    LET t == tempo_changes
    IN  IF t = <<>> \/ (t[1][1] # 0 /\ t[1][2] # config.default_tempo)
        THEN << <<0, config.default_tempo>> >> \o t
        ELSE IF t[1][2] = config.default_tempo
        THEN << <<0, t[1][2]>> >> \o Tail(t)
        ELSE t

\* the tempo list returned: the mocked entry deleted, a tempo at tick 0
FinalTempos(tempo_changes) ==
    LET t == Tail(tempo_changes)
    IN  IF t = <<>> \/ (t[1][1] # 0 /\ t[1][2] # config.default_tempo)
        THEN << <<0, config.default_tempo>> >> \o t
        ELSE IF t[1][2] = config.default_tempo
        THEN << <<0, t[1][2]>> >> \o Tail(t)
        ELSE t

\* the piece returned
TokensToMidiReturn(d) ==
    [tracks |-> IF one_token_stream THEN d.tracks ELSE d.midi_tracks,
     tempos |-> FinalTempos(d.tempo_changes),
     time_signatures |-> d.time_signature_changes]

-----------------------------------------------------------------------------
(* CPWord._create_token_types_graph and CPWord._tokens_errors *)

\* the successors of each type, as lists (a type may be listed twice)
cp_token_types_graph ==
    LET rest0 == IF config.use_chords THEN <<"Rest", "Position">> ELSE <<>>
        rest1 == IF config.use_rests THEN <<"Rest", "Position", "Bar">> ELSE rest0
        has_rest == config.use_chords \/ config.use_rests
        bar == <<"Position", "Bar">>
        position == <<"Pitch">>
            \o (IF config.use_tempos THEN <<"Position", "Bar">> ELSE <<>>)
            \o (IF config.use_tempos /\ config.use_rests THEN <<"Rest">> ELSE <<>>)
        pitch == <<"Pitch", "Bar", "Position">>
            \o (IF config.use_chords THEN <<"Rest">> ELSE <<>>)
            \o (IF config.use_rests THEN <<"Rest">> ELSE <<>>)
        rest == rest1
            \o (IF config.use_tempos /\ config.use_rests THEN <<"Position">> ELSE <<>>)
        keys == <<"Bar", "Position", "Pitch">>
            \o (IF has_rest THEN <<"Rest">> ELSE <<>>)
        of(key) == CASE key = "Bar" -> bar
                     [] key = "Position" -> position
                     [] key = "Pitch" -> pitch
                     [] key = "Rest" -> rest
    IN  [key \in {keys[k] : k \in 1..Len(keys)} \cup {"Ignore"} |->
            IF key = "Ignore" THEN keys ELSE Append(of(key), "Ignore")]

InList(x, list) == \E k \in 1..Len(list) : list[k] = x

\* cp_token_type(tok): the [type, value] a compound token counts as; the
\* type "RuntimeError" stands for the exception
cp_token_type(tok) ==
    LET family == Family(tok)
        bar_pos == Field(tok, 1)
        found == {i \in 1..4 : tok[Len(tok) + 1 - i].type # "Ignore"}
        first == CHOOSE i \in found : \A j \in found : i <= j
    IN  IF family = "Note" THEN Field(tok, 2)
        ELSE IF family = "Metric" THEN
            IF bar_pos.type \in {"Bar", "Position"} THEN bar_pos
            ELSE IF found # {} THEN tok[Len(tok) + 1 - first]
            ELSE Tk("RuntimeError", None)
        ELSE IF family = "None" THEN Tk("PAD", None)
        ELSE Tk("RuntimeError", None)

\* the locals before the loop
CPTokensErrorsInit(toks) ==
    [i |-> 2, exc |-> "",
     err |-> 0,
     previous_type |-> cp_token_type(toks[1]).type,
     current_pos |-> -1,
     program |-> 0,
     current_pitches |-> [p \in config.programs |-> <<>>]]

\* one turn of the loop in which a bad type is counted twice, for the token
\* and for the one before it
CPTokensErrorsStep_BadTypeTwice(v, token) ==
    LET tt == cp_token_type(token)
        token_type == tt.type
        token_value == tt.value
        cleared == [p \in config.programs |-> <<>>]
        v1 ==
            IF InList(token_type, cp_token_types_graph[v.previous_type]) THEN
                IF token_type = "Bar"
                THEN [v EXCEPT !.current_pos = -1, !.current_pitches = cleared]
                ELSE IF config.remove_duplicated_notes /\ token_type = "Pitch" THEN
                    IF config.use_programs
                    THEN [v EXCEPT !.exc = "AttributeError"]
                    ELSE IF InList(token_value[1], v.current_pitches[v.program])
                    THEN [v EXCEPT !.err = @ + 1]
                    ELSE [v EXCEPT !.current_pitches[v.program] =
                                        Append(@, token_value[1])]
                ELSE IF token_type = "Position" THEN
                    IF token_value[1] <= v.current_pos /\ v.previous_type # "Rest"
                    THEN [v EXCEPT !.err = @ + 1]
                    ELSE [v EXCEPT !.current_pos = token_value[1],
                                   !.current_pitches = cleared]
                ELSE v
            ELSE [v EXCEPT !.err = @ + 2]
    IN  IF token_type = "RuntimeError" THEN [v EXCEPT !.exc = "RuntimeError"]
        ELSE IF v.previous_type \notin DOMAIN cp_token_types_graph
        THEN [v EXCEPT !.exc = "KeyError"]
        ELSE [v1 EXCEPT !.previous_type = token_type, !.i = @ + 1]

\* one turn of the loop in which a Bar token keeps the position cursor
CPTokensErrorsStep_KeepCursor(v, token) ==
    LET tt == cp_token_type(token)
        token_type == tt.type
        token_value == tt.value
        cleared == [p \in config.programs |-> <<>>]
        v1 ==
            IF InList(token_type, cp_token_types_graph[v.previous_type]) THEN
                IF token_type = "Bar"
                THEN [v EXCEPT !.current_pitches = cleared]
                ELSE IF config.remove_duplicated_notes /\ token_type = "Pitch" THEN
                    IF config.use_programs
                    THEN [v EXCEPT !.exc = "AttributeError"]
                    ELSE IF InList(token_value[1], v.current_pitches[v.program])
                    THEN [v EXCEPT !.err = @ + 1]
                    ELSE [v EXCEPT !.current_pitches[v.program] =
                                        Append(@, token_value[1])]
                ELSE IF token_type = "Position" THEN
                    IF token_value[1] <= v.current_pos /\ v.previous_type # "Rest"
                    THEN [v EXCEPT !.err = @ + 1]
                    ELSE [v EXCEPT !.current_pos = token_value[1],
                                   !.current_pitches = cleared]
                ELSE v
            ELSE [v EXCEPT !.err = @ + 1]
    IN  IF token_type = "RuntimeError" THEN [v EXCEPT !.exc = "RuntimeError"]
        ELSE IF v.previous_type \notin DOMAIN cp_token_types_graph
        THEN [v EXCEPT !.exc = "KeyError"]
        ELSE [v1 EXCEPT !.previous_type = token_type, !.i = @ + 1]

\* one turn of the loop, on the token at index v.i
CPTokensErrorsStep(v, token) ==
    LET tt == cp_token_type(token)
        token_type == tt.type
        token_value == tt.value
        cleared == [p \in config.programs |-> <<>>]
        v1 ==
            IF InList(token_type, cp_token_types_graph[v.previous_type]) THEN
                IF token_type = "Bar"
                THEN [v EXCEPT !.current_pos = -1, !.current_pitches = cleared]
                ELSE IF config.remove_duplicated_notes /\ token_type = "Pitch" THEN
                    IF config.use_programs
                    THEN [v EXCEPT !.exc = "AttributeError"]
                    ELSE IF InList(token_value[1], v.current_pitches[v.program])
                    THEN [v EXCEPT !.err = @ + 1]
                    ELSE [v EXCEPT !.current_pitches[v.program] =
                                        Append(@, token_value[1])]
                ELSE IF token_type = "Position" THEN
                    IF token_value[1] <= v.current_pos /\ v.previous_type # "Rest"
                    THEN [v EXCEPT !.err = @ + 1]
                    ELSE [v EXCEPT !.current_pos = token_value[1],
                                   !.current_pitches = cleared]
                ELSE v
            ELSE [v EXCEPT !.err = @ + 1]
    IN  IF token_type = "RuntimeError" THEN [v EXCEPT !.exc = "RuntimeError"]
        ELSE IF v.previous_type \notin DOMAIN cp_token_types_graph
        THEN [v EXCEPT !.exc = "KeyError"]
        ELSE [v1 EXCEPT !.previous_type = token_type, !.i = @ + 1]

-----------------------------------------------------------------------------
(* The tokenizers constructed and the pieces given to them *)

\* the configuration of a CPWord tokenizer with the given flags
CPConfig(use_programs, use_chords, use_rests, use_tempos, use_time_signatures) ==
    [use_programs |-> use_programs,
     use_chords |-> use_chords,
     use_rests |-> use_rests,
     use_tempos |-> use_tempos,
     use_time_signatures |-> use_time_signatures,
     remove_duplicated_notes |-> FALSE,
     log_tempos |-> FALSE,
     beat_res |-> << <<0, 2, 1>> >>,
     beat_res_rest |-> << <<0, 3, 1>> >>,
     tempos |-> <<100, 120, 140>>,
     default_tempo |-> 120,
     time_signatures |-> {<<4, 4>>, <<2, 4>>, <<1, 4>>},
     programs |-> {0, 1}]

CPConfigs ==
    {CPConfig(p, c, r, t, s) : p \in {FALSE}, c \in BOOLEAN, r \in BOOLEAN,
                               t \in BOOLEAN, s \in BOOLEAN}
        \cup {CPConfig(TRUE, FALSE, r, TRUE, TRUE) : r \in {FALSE}}

\* a finer grid: two samples per beat, duration table 1, 2, 4 ticks
FineConfig ==
    [CPConfig(FALSE, FALSE, TRUE, FALSE, FALSE) EXCEPT
        !.beat_res = << <<0, 1, 2>>, <<1, 2, 1>> >>,
        !.beat_res_rest = << <<0, 2, 2>> >>]

\* the tokenizers: <<configuration, ticks per beat of the pieces>>
CPSetups == {<<c, 1>> : c \in CPConfigs} \cup {<<FineConfig, 2>>}

\* an event of the stream given to _add_time_events
InEv(type_, value, time, desc) ==
    [type_ |-> type_, value |-> value, time |-> time, desc |-> desc]

\* the notes a piece is made of: <<pitch, velocity, length in ticks>>
NoteShapes == {<<60, 80, 1>>, <<62, 100, 3>>}

\* with programs, the notes of a program have one shape
ProgramShape(p) == IF p = 0 THEN <<60, 80, 1>> ELSE <<62, 100, 3>>

\* the items of a piece at a tick
ItemsAt(t) ==
    (IF config.use_programs
     THEN {[kind |-> "Note", time |-> t, value |-> ProgramShape(p), program |-> p] :
              p \in config.programs}
     ELSE {[kind |-> "Note", time |-> t, value |-> n, program |-> 0] :
              n \in NoteShapes})
    \cup (IF config.use_tempos
          THEN {[kind |-> "Tempo", time |-> t, value |-> <<v>>, program |-> 0] :
                    v \in {100, 120}}
          ELSE {})
    \cup (IF config.use_time_signatures
          THEN {[kind |-> "TimeSig", time |-> t, value |-> ts, program |-> 0] :
                    ts \in config.time_signatures \ {TIME_SIGNATURE}}
          ELSE {})
    \cup (IF config.use_chords
          THEN {[kind |-> "Chord", time |-> t, value |-> <<1>>, program |-> 0]}
          ELSE {})

\* the pieces of at most n items, in time order from tick t on, on the beats
RECURSIVE Pieces(_, _)
Pieces(n, t) ==
    IF n = 0 THEN {<<>>}
    ELSE {<<>>} \cup
         UNION {{<<it>> \o rest : rest \in Pieces(n - 1, it.time)} :
                    it \in UNION {ItemsAt(u * time_division) :
                                     u \in (t \div time_division)..MaxTick}}

\* the events of an item: a note is a Pitch, a Velocity and a Duration event
\* (after a Program event when programs are used)
ItemEvents(it) ==
    IF it.kind = "Note"
    THEN (IF config.use_programs
          THEN <<InEv("Program", <<it.program>>, it.time, 0)>> ELSE <<>>)
         \o <<InEv("Pitch", <<it.value[1]>>, it.time, it.time + it.value[3]),
              InEv("Velocity", <<it.value[2]>>, it.time, 0),
              InEv("Duration", NearestDuration(it.value[3], time_division),
                   it.time, 0)>>
    ELSE <<InEv(it.kind, it.value, it.time, 0)>>

PieceEvents(piece) == Flatten([k \in 1..Len(piece) |-> ItemEvents(piece[k])])

-----------------------------------------------------------------------------
(* The calls *)

Idle == [idle |-> TRUE]

InitWith(setups) ==
    /\ tokenizer = "CPWord"
    /\ \E setup \in setups : config = setup[1] /\ time_division = setup[2]
    /\ max_bar_embedding = 0
    /\ vocab = <<>>
    /\ pc = "idle"
    /\ events = <<>>
    /\ midi = <<>>
    /\ enc = Idle
    /\ tokens = <<>>
    /\ dec = Idle
    /\ decoded = Idle
    /\ val = Idle
    /\ raised = ""
    /\ calls = 0

InitCP == InitWith(CPSetups)
InitCPFine == InitWith({<<FineConfig, 2>>})

Self == <<tokenizer, config, time_division>>
Vocabulary == <<max_bar_embedding, vocab>>

\* tokenizer(midi), CPWord: _add_time_events is called on the event stream
CPEncodeCall ==
    /\ tokenizer = "CPWord" /\ pc = "idle" /\ calls = 0
    /\ \E piece \in Pieces(MaxItems, 0) :
          /\ midi' = piece
          /\ events' = PieceEvents(piece)
          /\ enc' = AddTimeEventsInit(PieceEvents(piece))
    /\ pc' = "add_time_events"
    /\ calls' = calls + 1
    /\ UNCHANGED <<Self, Vocabulary, tokens, dec, decoded, val, raised>>

CPAddTimeEvents ==
    /\ pc = "add_time_events" /\ enc.e <= Len(events)
    /\ enc' = AddTimeEventsStep(enc, events)
    /\ UNCHANGED <<Self, Vocabulary, pc, events, midi, tokens, dec, decoded, val,
                   raised, calls>>

\* the compound tokens as strings
complete_sequence(all_events) ==
    [k \in 1..Len(all_events) |->
        [j \in 1..Len(all_events[k]) |-> Str(all_events[k][j])]]

CPEncodeReturn ==
    /\ pc = "add_time_events" /\ enc.e > Len(events)
    /\ tokens' = <<complete_sequence(enc.all_events)>>
    /\ pc' = "encoded"
    /\ UNCHANGED <<Self, Vocabulary, events, midi, enc, dec, decoded, val, raised,
                   calls>>

\* _tokens_to_midi, the loop over the tokens of a sequence from d.i on
RECURSIVE DecodeSeq(_, _)
DecodeSeq(d, seq) ==
    IF d.exc # "" \/ d.i > Len(seq) THEN d
    ELSE DecodeSeq(DecodeToken(d, seq[d.i]), seq)

\* _tokens_to_midi, the loop over the sequences from d.si on
RECURSIVE DecodeSeqs(_, _)
DecodeSeqs(d, toks) ==
    IF d.exc # "" \/ d.si > Len(toks) THEN d
    ELSE LET d1 == DecodeSeq(SeqStart(d, toks[d.si]), toks[d.si])
         IN  IF d1.exc # "" THEN d1 ELSE DecodeSeqs(SeqEnd(d1), toks)

\* _tokens_errors of a sequence: the locals at the end of the loop
RECURSIVE CPTokensErrorsLoop(_, _)
CPTokensErrorsLoop(v, toks) ==
    IF v.exc # "" \/ v.i > Len(toks) THEN v
    ELSE CPTokensErrorsLoop(CPTokensErrorsStep(v, toks[v.i]), toks)

CPTokensErrors(toks) ==
    IF toks = <<>> THEN [exc |-> "IndexError", err |-> 0]
    ELSE IF cp_token_type(toks[1]).type = "RuntimeError"
    THEN [exc |-> "RuntimeError", err |-> 0]
    ELSE CPTokensErrorsLoop(CPTokensErrorsInit(toks), toks)

\* tokenizer(tokens), CPWord: _tokens_to_midi on the sequence encoded
CPDecode ==
    /\ tokenizer = "CPWord" /\ pc = "encoded"
    /\ dec' = DecodeSeqs(TokensToMidiInit(time_division, None), tokens)
    /\ decoded' = IF dec'.exc = "" THEN TokensToMidiReturn(dec') ELSE decoded
    /\ raised' = dec'.exc
    /\ pc' = IF dec'.exc = "" THEN "decoded" ELSE "raised"
    /\ UNCHANGED <<Self, Vocabulary, events, midi, enc, tokens, val, calls>>

\* tokenizer.tokens_errors(tokens), CPWord: _tokens_errors on the sequence
CPErrors ==
    /\ tokenizer = "CPWord" /\ pc = "decoded"
    /\ val' = CPTokensErrors(tokens[1])
    /\ raised' = val'.exc
    /\ pc' = IF val'.exc = "" THEN "checked" ELSE "raised"
    /\ UNCHANGED <<Self, Vocabulary, events, midi, enc, tokens, dec, decoded, calls>>

NextCP ==
    \/ CPEncodeCall \/ CPAddTimeEvents \/ CPEncodeReturn
    \/ CPDecode
    \/ CPErrors

SpecCP == InitCP /\ [][NextCP]_vars
SpecCPFine == InitCPFine /\ [][NextCP]_vars

-----------------------------------------------------------------------------
(* Round trip of the notes, pooled scheme *)

\* the items of a kind of a piece, in the order of the piece
ItemsOf(piece, kind) == SelectSeq(piece, LAMBDA it : it.kind = kind)

\* the note the decoder is to return for a note of the piece
ExpectedNote(it) ==
    Note(it.time,
         token_duration_to_ticks(NearestDuration(it.value[3], time_division),
                                 time_division),
         it.value[1], it.value[2])

\* the notes to be returned for a program, in the order of the piece
ExpectedNotes(piece, program) ==
    LET own == SelectSeq(piece,
                         LAMBDA it : it.kind = "Note" /\ it.program = program)
    IN  [k \in 1..Len(own) |-> ExpectedNote(own[k])]

ProgramsOf(piece) ==
    {piece[k].program : k \in {j \in 1..Len(piece) : piece[j].kind = "Note"}}

\* the tracks returned hold, track by track, the notes of the piece
SameNotes ==
    IF one_token_stream
    THEN /\ {decoded.tracks[k].program : k \in 1..Len(decoded.tracks)}
                = ProgramsOf(midi)
         /\ Len(decoded.tracks) = Cardinality(ProgramsOf(midi))
         /\ \A k \in 1..Len(decoded.tracks) :
                decoded.tracks[k].notes
                    = ExpectedNotes(midi, decoded.tracks[k].program)
    ELSE /\ Len(decoded.tracks) = 1
         /\ decoded.tracks[1].notes = ExpectedNotes(midi, 0)

Decoded == pc \in {"decoded", "checked"}

\* C1: with rests and time signatures not both enabled, the decoding of the
\* encoding of a piece holds, track by track, the notes of the piece: same
\* count, pitch, velocity and start, the end at start + the length of the
\* nearest entry of the duration table.
C1_NotesRoundTrip ==
    (Decoded /\ ~(config.use_rests /\ config.use_time_signatures)) => SameNotes

-----------------------------------------------------------------------------
(* Grammar soundness, pooled scheme *)

\* the validator has run on the sequence encoded
Validated == val # Idle

\* every Chord event is followed by a note of its tick
ChordsOnNotes(piece) ==
    \A k \in 1..Len(piece) : piece[k].kind = "Chord" =>
        \E j \in (k + 1)..Len(piece) :
            piece[j].kind = "Note" /\ piece[j].time = piece[k].time

\* no event of its tick precedes a TimeSig event in the stream
TimeSigsFirst(piece) ==
    \A k \in 1..Len(piece) : piece[k].kind = "TimeSig" =>
        \A j \in 1..(k - 1) : piece[j].time < piece[k].time

-----------------------------------------------------------------------------
(* Round trip of the tempo and time-signature lists, pooled scheme *)

\* the lists of the piece: <<tick, tempo>> and <<tick, numerator, denominator>>
OrigTempos ==
    LET t == ItemsOf(midi, "Tempo")
    IN  [k \in 1..Len(t) |-> <<t[k].time, t[k].value[1]>>]
OrigTimeSigs ==
    LET t == ItemsOf(midi, "TimeSig")
    IN  [k \in 1..Len(t) |-> <<t[k].time, t[k].value[1], t[k].value[2]>>]

\* an empty list stands for the default value at tick 0
WithDefault(list, first) == IF list = <<>> THEN <<first>> ELSE list
EffTempos == WithDefault(OrigTempos, <<0, config.default_tempo>>)
EffTimeSigs == WithDefault(OrigTimeSigs, <<0, TIME_SIGNATURE[1], TIME_SIGNATURE[2]>>)

\* a list of changes: it starts at tick 0, its ticks increase and each entry
\* differs in value from the one before
Changes(list) ==
    /\ list[1][1] = 0
    /\ \A k \in 1..(Len(list) - 1) :
          list[k][1] < list[k + 1][1] /\ Tail(list[k]) # Tail(list[k + 1])

\* every time-signature change is on a bar boundary of the grid before it
RECURSIVE OnGridFrom(_, _, _)
OnGridFrom(ts_items, anchor, tpb) ==
    IF ts_items = <<>> THEN TRUE
    ELSE /\ (Head(ts_items).time - anchor) % tpb = 0
         /\ OnGridFrom(Tail(ts_items), Head(ts_items).time,
                       compute_ticks_per_bar(Head(ts_items).value, time_division))

TimeSigsOnBars(piece) ==
    OnGridFrom(ItemsOf(piece, "TimeSig"), 0,
               compute_ticks_per_bar(TIME_SIGNATURE, time_division))

\* only TimeSig events of its tick precede a Tempo event in the stream
TemposBeforeNotes(piece) ==
    \A k \in 1..Len(piece) : piece[k].kind = "Tempo" =>
        \A j \in 1..(k - 1) :
            piece[j].time < piece[k].time \/ piece[j].kind = "TimeSig"

\* tempos and time signatures enabled, rests disabled, lists of changes with
\* the time-signature changes on bar boundaries
ListsScope ==
    /\ Decoded
    /\ config.use_tempos /\ config.use_time_signatures /\ ~config.use_rests
    /\ Changes(EffTempos) /\ Changes(EffTimeSigs) /\ TimeSigsOnBars(midi)

ListsReturned ==
    /\ decoded.tempos = EffTempos
    /\ decoded.time_signatures = EffTimeSigs

-----------------------------------------------------------------------------
(* MuMIDI: _midi_to_tokens *)

\* get_midi_max_tick(midi): the last tick of the piece
get_midi_max_tick(piece) ==
    LET ticks == UNION {{piece.tracks[t].notes[n].end :
                            n \in 1..Len(piece.tracks[t].notes)} :
                        t \in 1..Len(piece.tracks)}
                 \cup {piece.tempos[k][1] : k \in 1..Len(piece.tempos)}
                 \cup {0}
    IN  CHOOSE m \in ticks : \A x \in ticks : x <= m

\* ceil(max_tick / (ticks_per_quarter * 4))
NumBarsOf(max_tick, ticks_per_quarter) ==
    (max_tick + ticks_per_quarter * 4 - 1) \div (ticks_per_quarter * 4)

\* ceil(get_midi_max_tick(midi) / (midi.ticks_per_quarter * 4))
NumBars(piece) == NumBarsOf(get_midi_max_tick(piece), piece.ticks_per_quarter)

\* add_to_vocab(token, 1): the token is given the next index of
\* sub-vocabulary 1
add_to_vocab(voc, token) == Append(voc, token)

\* add_to_vocab(f"BarPosEnc_{i}", 1) for i in range(from, to)
RECURSIVE AddBarPosEnc(_, _, _)
AddBarPosEnc(voc, from, to) ==
    IF from >= to THEN voc
    ELSE AddBarPosEnc(add_to_vocab(voc, Tk("BarPosEnc", <<from>>)), from + 1, to)

\* the labels BarPosEnc_from .. BarPosEnc_(to - 1), in this order
BarPosEncLabels(from, to) == [k \in 1..(to - from) |-> Tk("BarPosEnc", <<from + k - 1>>)]

\* the check of the bar embedding limit: <<sub-vocabulary 1, max_bar_embedding>>
GrowVocab(voc, max, num_bars) ==
    IF max < num_bars
    THEN <<AddBarPosEnc(voc, max, num_bars), num_bars>>
    ELSE <<voc, max>>

\* a time step of track_to_tokens: the Event and, for a note, its Velocity
\* and Duration tokens
NoteToken(type_, value, time, desc, rest) ==
    [type_ |-> type_, value |-> value, time |-> time, desc |-> desc, rest |-> rest]

track_to_tokens(track, td) ==
    LET note_step(note) ==
            NoteToken(IF track.is_drum THEN "DrumPitch" ELSE "Pitch",
                      <<note.pitch>>, note.start,
                      IF track.is_drum THEN -1 ELSE track.program,
                      <<Tk("Velocity", <<note.velocity>>),
                        Tk("Duration", NearestDuration(note.end - note.start, td))>>)
        notes == [n \in 1..Len(track.notes) |-> note_step(track.notes[n])]
        chords == [c \in 1..Len(track.chords) |->
                      NoteToken("Chord", track.chords[c].value,
                                track.chords[c].time, track.program, <<>>)]
    IN  IF config.use_chords /\ ~track.is_drum THEN chords \o notes ELSE notes

\* a sort of the time steps by their tick alone
KeyLess_TimeOnly(a, b) == a.time < b.time

\* note_tokens.sort(key=lambda x: (x[0].time, x[0].desc)): a stable sort
KeyLess(a, b) == a.time < b.time \/ (a.time = b.time /\ a.desc < b.desc)

RECURSIVE InsertSorted(_, _)
InsertSorted(sorted, x) ==
    IF sorted = <<>> THEN <<x>>
    ELSE IF KeyLess(x, Last(sorted))
    THEN Append(InsertSorted(SubSeq(sorted, 1, Len(sorted) - 1), x), Last(sorted))
    ELSE Append(sorted, x)

RECURSIVE SortTokens(_)
SortTokens(seq) ==
    IF seq = <<>> THEN <<>>
    ELSE InsertSorted(SortTokens(SubSeq(seq, 1, Len(seq) - 1)), Last(seq))

\* the time steps of the tracks whose program is configured, sorted
SortedNoteTokens(piece) ==
    LET kept == SelectSeq(piece.tracks, LAMBDA tr : tr.program \in config.programs)
    IN  SortTokens(Flatten([t \in 1..Len(kept) |->
                               track_to_tokens(kept[t], piece.ticks_per_quarter)]))

\* the locals before the loop over the time steps
MidiToTokensInit(piece) ==
    [k |-> 1,
     tokens |-> <<>>,
     ticks_per_bar |-> piece.ticks_per_quarter * 4,
     current_tick |-> -1,
     current_bar |-> -1,
     current_pos |-> -1,
     current_track |-> -2,
     current_tempo_idx |-> 0,
     current_tempo |-> piece.tempos[1][2]]

\* (Tempo): the index of the last tempo change not after the time step
RECURSIVE TempoIdx(_, _, _)
TempoIdx(tempos, idx, time) ==
    IF idx + 1 < Len(tempos) /\ tempos[idx + 2][1] <= time
    THEN TempoIdx(tempos, idx + 1, time)
    ELSE idx

\* the sub-fields every token list carries after its first one
PosEnc_NoPosition(bar, pos, tempo) ==
    <<Tk("BarPosEnc", <<bar>>), Tk("PositionPosEnc", None)>>
        \o (IF config.use_tempos THEN <<Tk("Tempo", <<tempo>>)>> ELSE <<>>)
PosEnc(bar, pos, tempo) ==
    <<Tk("BarPosEnc", <<bar>>),
      Tk("PositionPosEnc", IF pos = -1 THEN None ELSE <<pos>>)>>
        \o (IF config.use_tempos THEN <<Tk("Tempo", <<tempo>>)>> ELSE <<>>)

\* one turn of the loop, on the time step at index s.k
MidiToTokensStep(s, note_tokens, piece) ==
    LET note_token == note_tokens[s.k]
        time == note_token.time
        idx == IF config.use_tempos
               THEN TempoIdx(piece.tempos, s.current_tempo_idx, time)
               ELSE s.current_tempo_idx
        current_tempo == IF idx # s.current_tempo_idx
                         THEN piece.tempos[idx + 1][2] ELSE s.current_tempo
        new_tick == time # s.current_tick
        pos_index == ((time % s.ticks_per_bar) * MaxBeatRes)
                        \div piece.ticks_per_quarter
        current_pos == IF new_tick THEN pos_index ELSE s.current_pos
        num_new_bars == IF new_tick /\ s.current_bar < time \div s.ticks_per_bar
                        THEN time \div s.ticks_per_bar - s.current_bar ELSE 0
        current_bar == s.current_bar + num_new_bars
        bar_tokens == [i \in 1..num_new_bars |->
            <<Tk("Bar", None)>> \o PosEnc(s.current_bar + i, -1, current_tempo)]
        pos_tokens == IF new_tick
            THEN << <<Tk("Position", <<current_pos>>)>>
                        \o PosEnc(current_bar, current_pos, current_tempo) >>
            ELSE <<>>
        track0 == IF new_tick THEN -2 ELSE s.current_track
        track_tokens == IF note_token.desc # track0
            THEN << <<Tk("Program", <<note_token.desc>>)>>
                        \o PosEnc(current_bar, current_pos, current_tempo) >>
            ELSE <<>>
        step_token == <<Tk(note_token.type_, note_token.value)>>
                        \o PosEnc(current_bar, current_pos, current_tempo)
                        \o note_token.rest
    IN  [s EXCEPT
            !.k = @ + 1,
            !.tokens = @ \o bar_tokens \o pos_tokens \o track_tokens
                         \o <<step_token>>,
            !.current_tick = time,
            !.current_bar = current_bar,
            !.current_pos = current_pos,
            !.current_track = note_token.desc,
            !.current_tempo_idx = idx,
            !.current_tempo = current_tempo]

-----------------------------------------------------------------------------
(* MuMIDI: _tokens_to_midi *)

\* a key of the dictionary of tracks: the string of a Program token; the
\* default of current_track is the integer 0, which is no such string
TrackKey(tok_val) == <<"str", tok_val>>
DefaultTrack == <<"int", <<0>>>>

\* the locals before the loop: the ValueError of the time division, the
\* first tempo
MuTokensToMidiInit(toks, td) ==
    LET bad_td == td % MaxBeatRes # 0
        first == IF config.use_tempos /\ Len(toks) > 0
                 THEN toks[1][4].value ELSE <<config.default_tempo>>
        bad_tempo == ~bad_td /\ ~IsNumber(first)
    IN  [i |-> 1,
         exc |-> IF bad_td \/ bad_tempo THEN "ValueError" ELSE "",
         time_division |-> td,
         tempos |-> IF bad_td \/ bad_tempo THEN <<>> ELSE << <<0, first[1]>> >>,
         ticks_per_sample |-> td \div MaxBeatRes,
         tracks |-> <<>>,
         current_tick |-> 0,
         current_bar |-> -1,
         current_track |-> DefaultTrack]

\* current_bar * time_division * 4: the tick a bar of four beats starts at
TickOfBar_ThreeBeats(current_bar, td) == current_bar * td * 3
TickOfBar(current_bar, td) == current_bar * td * 4

\* Decode tempo if required
MuDecodeTempo(d, time_step) ==
    IF ~config.use_tempos THEN d
    ELSE IF ~IsNumber(time_step[4].value) THEN [d EXCEPT !.exc = "ValueError"]
    ELSE IF time_step[4].value[1] # Last(d.tempos)[2]
    THEN [d EXCEPT !.tempos = Append(@, <<d.current_tick, time_step[4].value[1]>>)]
    ELSE d

\* one turn of the loop, on the time step at index d.i
MuDecodeStep(d, time_step) ==
    LET tok_type == time_step[1].type
        tok_val == time_step[1].value
        vel == time_step[Len(time_step) - 1].value
        duration == time_step[Len(time_step)].value
        next == [d EXCEPT !.i = @ + 1]
    IN  IF tok_type = "Bar"
        THEN MuDecodeTempo([next EXCEPT
                !.current_bar = @ + 1,
                !.current_tick = TickOfBar(d.current_bar + 1, d.time_division)],
                time_step)
        ELSE IF tok_type = "Position"
        THEN LET current_bar == IF d.current_bar = -1 THEN 0 ELSE d.current_bar
             IN  MuDecodeTempo([next EXCEPT
                    !.current_bar = current_bar,
                    !.current_tick = TickOfBar(current_bar, d.time_division)
                                        + tok_val[1] * d.ticks_per_sample],
                    time_step)
        ELSE IF tok_type = "Program"
        THEN MuDecodeTempo([next EXCEPT
                !.current_track = TrackKey(tok_val),
                !.tracks = IF HasTrack(@, TrackKey(tok_val)) THEN @
                           ELSE Append(@, [key |-> TrackKey(tok_val),
                                           notes |-> <<>>])],
                time_step)
        ELSE IF tok_type \in {"Pitch", "DrumPitch"}
        THEN IF vel = None \/ duration = None THEN next
             ELSE IF ~HasTrack(d.tracks, d.current_track)
             THEN [next EXCEPT !.exc = "KeyError"]
             ELSE MuDecodeTempo([next EXCEPT
                    !.tracks = AppendNote(@, d.current_track,
                        Note(d.current_tick,
                             token_duration_to_ticks(duration, d.time_division),
                             tok_val[1], vel[1]))],
                    time_step)
        ELSE MuDecodeTempo(next, time_step)

\* the piece returned: one track per key, drums for the key -1
MuTokensToMidiReturn(d) ==
    [tracks |-> [t \in 1..Len(d.tracks) |->
                    [program |-> IF d.tracks[t].key[2] = <<-1>> THEN 0
                                 ELSE d.tracks[t].key[2][1],
                     is_drum |-> d.tracks[t].key[2] = <<-1>>,
                     notes |-> d.tracks[t].notes]],
     tempos |-> d.tempos]

RECURSIVE MuDecodeLoop(_, _)
MuDecodeLoop(d, toks) ==
    IF d.exc # "" \/ d.i > Len(toks) THEN d
    ELSE MuDecodeLoop(MuDecodeStep(d, toks[d.i]), toks)

-----------------------------------------------------------------------------
(* MuMIDI: _create_token_types_graph and _tokens_errors *)

mu_token_types_graph ==
    [key \in {"Bar", "Position", "Program", "Pitch", "DrumPitch"}
                \cup (IF config.use_chords THEN {"Chord"} ELSE {}) |->
        CASE key = "Bar" -> <<"Bar", "Position">>
          [] key = "Position" -> <<"Program">>
          [] key = "Program" -> <<"Pitch", "DrumPitch">>
                \o (IF config.use_chords THEN <<"Chord">> ELSE <<>>)
          [] key = "Pitch" -> <<"Pitch", "Program", "Bar", "Position">>
          [] key = "DrumPitch" -> <<"DrumPitch", "Program", "Bar", "Position">>
          [] key = "Chord" -> <<"Pitch">>]

\* int(value) if value != "None" else -1
IntOrMinusOne(value) == IF value = None THEN -1 ELSE value[1]

\* the locals before the loop; tokens[0] of an empty sequence raises
MuTokensErrorsInit(toks) ==
    IF toks = <<>> THEN [exc |-> "IndexError", err |-> 0]
    ELSE IF ~IsNumber(toks[1][2].value) THEN [exc |-> "ValueError", err |-> 0]
    ELSE [i |-> 2,
          exc |-> "",
          err |-> 0,
          previous_type |-> toks[1][1].type,
          current_pitches |-> <<>>,
          current_bar |-> toks[1][2].value[1],
          current_pos |-> IntOrMinusOne(toks[1][3].value)]

\* one turn of the loop, on the token at index v.i
MuTokensErrorsStep(v, token) ==
    LET bar_value == token[2].value
        pos_value == IntOrMinusOne(token[3].value)
        token_type == token[1].type
        token_value == token[1].value
        next == [v EXCEPT !.i = @ + 1]
        good == [next EXCEPT !.previous_type = token_type]
        behind(w) == IF pos_value < w.current_pos \/ bar_value[1] < w.current_bar
                     THEN [w EXCEPT !.err = @ + 1] ELSE w
    IN  IF ~IsNumber(bar_value) THEN [v EXCEPT !.exc = "ValueError"]
        ELSE IF \E k \in 1..Len(token) : token[k].type \in {"PAD", "MASK"}
        THEN [next EXCEPT !.err = @ + 1]
        ELSE IF v.previous_type \notin DOMAIN mu_token_types_graph
        THEN [v EXCEPT !.exc = "KeyError"]
        ELSE IF ~InList(token_type, mu_token_types_graph[v.previous_type])
        THEN [good EXCEPT !.err = @ + 1]
        ELSE IF token_type = "Bar"
        THEN behind([good EXCEPT !.current_bar = @ + 1,
                                 !.current_pos = -1,
                                 !.current_pitches = <<>>])
        ELSE IF config.remove_duplicated_notes /\ token_type = "Pitch"
        THEN IF InList(token_value[1], v.current_pitches)
             THEN behind([good EXCEPT !.err = @ + 1])
             ELSE behind([good EXCEPT
                            !.current_pitches = Append(@, token_value[1])])
        ELSE IF token_type = "Position"
        THEN IF token_value[1] <= v.current_pos \/ token_value[1] # pos_value
             THEN behind([good EXCEPT !.err = @ + 1])
             ELSE behind([good EXCEPT !.current_pos = token_value[1],
                                      !.current_pitches = <<>>])
        ELSE IF token_type = "Program"
        THEN behind([good EXCEPT !.current_pitches = <<>>])
        ELSE behind(good)

RECURSIVE MuTokensErrorsLoop(_, _)
MuTokensErrorsLoop(v, toks) ==
    IF v.exc # "" \/ v.i > Len(toks) THEN v
    ELSE MuTokensErrorsLoop(MuTokensErrorsStep(v, toks[v.i]), toks)

MuTokensErrors(toks) == MuTokensErrorsLoop(MuTokensErrorsInit(toks), toks)

-----------------------------------------------------------------------------
(* MuMIDI: the tokenizers constructed and the pieces given to them *)

\* the configuration of a MuMIDI tokenizer with the given flags, after
\* _tweak_config_before_creating_voc
MuConfig(use_chords, use_tempos) ==
    [CPConfig(TRUE, use_chords, FALSE, use_tempos, FALSE) EXCEPT
        !.remove_duplicated_notes = TRUE,
        !.programs = {-1, 0, 1}]

MuConfigs == {MuConfig(c, t) : c \in BOOLEAN, t \in BOOLEAN}

\* the tokenizers: <<configuration, ticks per beat of the pieces>>; with two
\* ticks per beat the odd ticks are off the grid of samples
MuSetups == {<<c, 1>> : c \in MuConfigs} \cup {<<MuConfig(FALSE, FALSE), 2>>}

\* the tracks of a piece: <<program, is_drum>>, and the notes they play:
\* <<pitch, velocity, length in ticks>>
MuTracks == << <<0, FALSE>>, <<1, FALSE>>, <<0, TRUE>>, <<1, FALSE>> >>

MuShapes(t) ==
    CASE t = 1 -> {<<60, 80, 1>>, <<62, 100, 3>>}
      [] t = 2 -> {<<64, 70, 2>>}
      [] t = 3 -> {<<36, 90, 1>>}
      [] t = 4 -> {<<64, 70, 2>>, <<65, 60, 1>>}

\* the items of a piece at a tick: a note of a track (which a chord may start
\* at) or a tempo change
MuItemsAt(t) ==
    {[kind |-> "Note", time |-> t, value |-> k[2], track |-> k[1], chord |-> FALSE] :
        k \in UNION {{<<i, n>> : n \in MuShapes(i)} : i \in 1..Len(MuTracks)}}
    \cup (IF config.use_chords
          THEN {[kind |-> "Note", time |-> t, value |-> <<60, 80, 1>>,
                 track |-> 1, chord |-> TRUE]}
          ELSE {})
    \cup (IF config.use_tempos
          THEN {[kind |-> "Tempo", time |-> t, value |-> <<v>>, track |-> 0,
                 chord |-> FALSE] : v \in {100, 120}}
          ELSE {})

\* the lists of at most n items, in time order from tick t on
RECURSIVE MuPieces(_, _)
MuPieces(n, t) ==
    IF n = 0 THEN {<<>>}
    ELSE {<<>>} \cup
         UNION {{<<it>> \o rest : rest \in MuPieces(n - 1, it.time)} :
                    it \in UNION {MuItemsAt(u) : u \in t..MaxTick}}

\* the ticks of a sequence of items, each once, in the order of the sequence
RECURSIVE Ticks(_)
Ticks(items) ==
    IF items = <<>> THEN <<>>
    ELSE LET before == Ticks(SubSeq(items, 1, Len(items) - 1))
         IN  IF InList(Last(items).time, before) THEN before
             ELSE Append(before, Last(items).time)

\* the Score of a list of items: the tracks that have notes, the chords
\* detect_chords finds in a track, the tempo changes after the one of tick 0
MuScore(items) ==
    LET notes(k) == SelectSeq(items, LAMBDA it : it.kind = "Note" /\ it.track = k)
        track(k) ==
            [program |-> MuTracks[k][1],
             is_drum |-> MuTracks[k][2],
             notes |-> [n \in 1..Len(notes(k)) |->
                          [start |-> notes(k)[n].time,
                           end |-> notes(k)[n].time + notes(k)[n].value[3],
                           pitch |-> notes(k)[n].value[1],
                           velocity |-> notes(k)[n].value[2]]],
             chords |-> LET at == Ticks(SelectSeq(notes(k), LAMBDA it : it.chord))
                        IN  [c \in 1..Len(at) |-> [value |-> <<1>>, time |-> at[c]]]]
        changes == SelectSeq(items, LAMBDA it : it.kind = "Tempo")
        first == IF changes # <<>> /\ changes[1].time = 0 THEN <<>>
                 ELSE << <<0, config.default_tempo>> >>
    IN  [tracks |-> Flatten([k \in 1..Len(MuTracks) |->
                        IF notes(k) = <<>> THEN <<>> ELSE <<track(k)>>]),
         tempos |-> first \o [c \in 1..Len(changes) |->
                                <<changes[c].time, changes[c].value[1]>>],
         ticks_per_quarter |-> time_division]

-----------------------------------------------------------------------------
(* MuMIDI: the calls *)

\* sub-vocabulary 1 of _create_base_vocabulary
BaseBarPosEnc(max) == BarPosEncLabels(0, max)

InitMuWith(setups) ==
    /\ tokenizer = "MuMIDI"
    /\ \E setup \in setups : config = setup[1] /\ time_division = setup[2]
    /\ max_bar_embedding = 1
    /\ vocab = BaseBarPosEnc(1)
    /\ pc = "idle"
    /\ events = <<>>
    /\ midi = <<>>
    /\ enc = Idle
    /\ tokens = <<>>
    /\ dec = Idle
    /\ decoded = Idle
    /\ val = Idle
    /\ raised = ""
    /\ calls = 0

InitMu == InitMuWith(MuSetups)

\* tokenizer(midi), MuMIDI: the bar embedding limit is checked, the time
\* steps of the tracks are gathered and sorted
MuEncodeCall ==
    /\ tokenizer = "MuMIDI" /\ pc = "idle" /\ calls = 0
    /\ \E items \in MuPieces(MaxItems, 0) :
          LET piece == MuScore(items)
              grown == GrowVocab(vocab, max_bar_embedding, NumBars(piece))
          IN  /\ midi' = piece
              /\ vocab' = grown[1]
              /\ max_bar_embedding' = grown[2]
              /\ events' = SortedNoteTokens(piece)
              /\ enc' = MidiToTokensInit(piece)
    /\ pc' = "midi_to_tokens"
    /\ calls' = calls + 1
    /\ UNCHANGED <<Self, tokens, dec, decoded, val, raised>>

MuMidiToTokens ==
    /\ pc = "midi_to_tokens" /\ enc.k <= Len(events)
    /\ enc' = MidiToTokensStep(enc, events, midi)
    /\ UNCHANGED <<Self, Vocabulary, pc, events, midi, tokens, dec, decoded, val,
                   raised, calls>>

MuEncodeReturn ==
    /\ pc = "midi_to_tokens" /\ enc.k > Len(events)
    /\ tokens' = enc.tokens
    /\ pc' = "encoded"
    /\ UNCHANGED <<Self, Vocabulary, events, midi, enc, dec, decoded, val, raised,
                   calls>>

\* tokenizer(tokens), MuMIDI: _tokens_to_midi on the sequence encoded
MuDecode ==
    /\ tokenizer = "MuMIDI" /\ pc = "encoded"
    /\ dec' = MuDecodeLoop(MuTokensToMidiInit(tokens, time_division), tokens)
    /\ decoded' = IF dec'.exc = "" THEN MuTokensToMidiReturn(dec') ELSE decoded
    /\ raised' = dec'.exc
    /\ pc' = IF dec'.exc = "" THEN "decoded" ELSE "raised"
    /\ UNCHANGED <<Self, Vocabulary, events, midi, enc, tokens, val, calls>>

\* tokenizer.tokens_errors(tokens), MuMIDI: _tokens_errors on the sequence
MuErrors ==
    /\ tokenizer = "MuMIDI" /\ pc = "decoded"
    /\ val' = MuTokensErrors(tokens)
    /\ raised' = val'.exc
    /\ pc' = IF val'.exc = "" THEN "checked" ELSE "raised"
    /\ UNCHANGED <<Self, Vocabulary, events, midi, enc, tokens, dec, decoded, calls>>

NextMu ==
    \/ MuEncodeCall \/ MuMidiToTokens \/ MuEncodeReturn
    \/ MuDecode
    \/ MuErrors

SpecMu == InitMu /\ [][NextMu]_vars

-----------------------------------------------------------------------------
(* Round trip of the notes, interleaved scheme *)

\* what the encoder calls the track of a note: its program, -1 for drums
TrackId(track) == IF track.is_drum THEN -1 ELSE track.program

TrackIds(piece) == {TrackId(piece.tracks[t]) : t \in 1..Len(piece.tracks)}

\* the notes of a piece under a track id, each with the number of times it
\* is played: <<start, pitch, velocity, length>> |-> count
NoteCount(tracks, id, note) ==
    SumSeq([t \in 1..Len(tracks) |->
        IF TrackId(tracks[t]) # id THEN 0
        ELSE Cardinality({n \in 1..Len(tracks[t].notes) : tracks[t].notes[n] = note})])

\* the note of the piece as it is expected back: the length of the nearest
\* entry of the table of durations
MuExpectedNote(note, td) ==
    Note(note.start,
         token_duration_to_ticks(NearestDuration(note.end - note.start, td), td),
         note.pitch, note.velocity)

MuExpectedTracks(piece) ==
    [t \in 1..Len(piece.tracks) |->
        [piece.tracks[t] EXCEPT
            !.notes = [n \in 1..Len(@) |->
                          MuExpectedNote(@[n], piece.ticks_per_quarter)]]]

NotesOf(tracks) == UNION {{tracks[t].notes[n] : n \in 1..Len(tracks[t].notes)} :
                            t \in 1..Len(tracks)}

\* one track per track id, holding the notes expected and no other
MuSameNotes ==
    LET want == MuExpectedTracks(midi)
        got == decoded.tracks
    IN  /\ \A a, b \in 1..Len(got) : TrackId(got[a]) = TrackId(got[b]) => a = b
        /\ TrackIds(decoded) = TrackIds(midi)
        /\ \A id \in TrackIds(midi) : \A note \in NotesOf(want) \cup NotesOf(got) :
              NoteCount(got, id, note) = NoteCount(want, id, note)

\* the note starts of the piece are multiples of ticks_per_sample
OnSamples(piece) ==
    \A t \in 1..Len(piece.tracks) : \A n \in 1..Len(piece.tracks[t].notes) :
        (piece.tracks[t].notes[n].start * MaxBeatRes) % piece.ticks_per_quarter = 0

ProgramsConfigured(piece) ==
    \A t \in 1..Len(piece.tracks) : piece.tracks[t].program \in config.programs

MuDecoded == tokenizer = "MuMIDI" /\ pc \in {"decoded", "checked"}

\* C2: whenever the interleaved decoder has returned the piece of the tokens
\* the interleaved encoder made of a piece whose tracks have configured
\* programs and whose notes start on the grid of samples, the piece returned
\* has one track per program (one drum track for the drums) holding exactly
\* the notes of that program: same pitch, velocity and start, the length of
\* the nearest entry of the table of durations
C2_MuNotesRoundTrip ==
    (MuDecoded /\ ProgramsConfigured(midi) /\ OnSamples(midi)) => MuSameNotes

\* a piece with the three kinds of track, crossing a bar line
C2_Witness ==
    /\ MuDecoded /\ ProgramsConfigured(midi) /\ OnSamples(midi)
    /\ TrackIds(decoded) = {-1, 0, 1}
    /\ \E t \in 1..Len(decoded.tracks) : \E n \in 1..Len(decoded.tracks[t].notes) :
          decoded.tracks[t].notes[n].time >= 4 * time_division

-----------------------------------------------------------------------------
(* Grammar soundness, interleaved scheme *)

MuValidated == tokenizer = "MuMIDI" /\ val # Idle

\* the notes of each track are sorted by (start, pitch)
SortedByStartPitch(piece) ==
    \A t \in 1..Len(piece.tracks) : \A n \in 2..Len(piece.tracks[t].notes) :
        LET a == piece.tracks[t].notes[n - 1]
            b == piece.tracks[t].notes[n]
        IN  a.start < b.start \/ (a.start = b.start /\ a.pitch <= b.pitch)

\* no pitch is repeated at the same tick and program
NoRepeatedPitch(piece) ==
    \A t, u \in 1..Len(piece.tracks) :
        \A n \in 1..Len(piece.tracks[t].notes), m \in 1..Len(piece.tracks[u].notes) :
            (/\ TrackId(piece.tracks[t]) = TrackId(piece.tracks[u])
             /\ piece.tracks[t].notes[n].start = piece.tracks[u].notes[m].start
             /\ piece.tracks[t].notes[n].pitch = piece.tracks[u].notes[m].pitch)
            => (t = u /\ n = m)

-----------------------------------------------------------------------------
(* Decoding the tokens a model predicts *)

\* length of a predicted sequence
MaxTokens == 3

\* the tokenizers that decode predicted tokens
DecodeSetups ==
    {<<"CPWord", CPConfig(TRUE, FALSE, TRUE, TRUE, TRUE)>>,
     <<"MuMIDI", MuConfig(FALSE, TRUE)>>}

Ignore == Tk("Ignore", None)

\* compound tokens of the CPWord vocabulary: the Note tokens with each of
\* Pitch, Velocity, Duration and Program present or absent, the Bar tokens
\* with and without a time signature, the Position tokens with and without
\* a tempo, the Metric tokens with and without a rest
CPVocabTokens ==
    {<<Tk("Family", "Note"), Ignore, p, v, d, g, Ignore, Ignore, Ignore>> :
        p \in {Ignore, Tk("Pitch", <<60>>)},
        v \in {Ignore, Tk("Velocity", <<80>>)},
        d \in {Ignore, Tk("Duration", <<1, 0, 1>>)},
        g \in {Ignore, Tk("Program", <<1>>)}}
    \cup {<<Tk("Family", "Metric"), Tk("Bar", None), Ignore, Ignore, Ignore, Ignore,
            Ignore, Ignore, ts>> : ts \in {Ignore, Tk("TimeSig", <<2, 4>>)}}
    \cup {<<Tk("Family", "Metric"), Tk("Position", <<1>>), Ignore, Ignore, Ignore,
            Ignore, Ignore, tempo, Ignore>> : tempo \in {Ignore, Tk("Tempo", <<100>>)}}
    \cup {<<Tk("Family", "Metric"), Ignore, Ignore, Ignore, Ignore, Ignore,
            rest, Ignore, Ignore>> : rest \in {Ignore, Tk("Rest", <<1, 0, 1>>)}}

\* a special token, which any sub-vocabulary holds
PAD == Tk("PAD", None)

\* time steps of the MuMIDI vocabulary: Bar, Position and Program steps, the
\* Pitch and DrumPitch steps with Velocity and Duration present or absent
MuVocabTokens ==
    {<<first, Tk("BarPosEnc", <<0>>), Tk("PositionPosEnc", None), tempo>> :
        first \in {Tk("Bar", None), Tk("Position", <<0>>), Tk("Position", <<1>>),
                   Tk("Program", <<0>>), Tk("Program", <<-1>>)},
        tempo \in {Tk("Tempo", <<100>>), Tk("Tempo", <<120>>)}}
    \cup {<<first, Tk("BarPosEnc", <<0>>), Tk("PositionPosEnc", <<0>>), tempo, v, d>> :
        first \in {Tk("Pitch", <<60>>), Tk("DrumPitch", <<36>>)},
        tempo \in {Tk("Tempo", <<100>>), Tk("Tempo", <<120>>)},
        v \in {PAD, Tk("Velocity", <<80>>)},
        d \in {PAD, Tk("Duration", <<1, 0, 1>>)}}

InitDecode ==
    /\ \E setup \in DecodeSetups : tokenizer = setup[1] /\ config = setup[2]
    /\ time_division = 1
    /\ max_bar_embedding = IF tokenizer = "MuMIDI" THEN 1 ELSE 0
    /\ vocab = IF tokenizer = "MuMIDI" THEN BaseBarPosEnc(1) ELSE <<>>
    /\ pc = "predicting"
    /\ events = <<>>
    /\ midi = <<>>
    /\ enc = Idle
    /\ tokens = IF tokenizer = "CPWord" THEN << <<>> >> ELSE <<>>
    /\ dec = Idle
    /\ decoded = Idle
    /\ val = Idle
    /\ raised = ""
    /\ calls = 0

Unused == <<events, midi, enc, val, calls>>

\* the model predicts one more token
Predict ==
    /\ pc = "predicting"
    /\ \/ /\ tokenizer = "CPWord" /\ Len(tokens[1]) < MaxTokens
          /\ \E tok \in CPVocabTokens : tokens' = <<Append(tokens[1], tok)>>
       \/ /\ tokenizer = "MuMIDI" /\ Len(tokens) < MaxTokens
          /\ \E tok \in MuVocabTokens : tokens' = Append(tokens, tok)
    /\ UNCHANGED <<Self, Vocabulary, pc, dec, decoded, raised, Unused>>

\* a decode call that registers the bars it reaches as the encoder does
Running_Growing(d) ==
    /\ dec' = d
    /\ raised' = d.exc
    /\ pc' = IF d.exc = "" THEN "decoding" ELSE "raised"
    /\ IF tokenizer = "MuMIDI"
       THEN /\ vocab' = GrowVocab(vocab, max_bar_embedding, d.current_bar + 1)[1]
            /\ max_bar_embedding'
                  = GrowVocab(vocab, max_bar_embedding, d.current_bar + 1)[2]
       ELSE UNCHANGED Vocabulary
    /\ UNCHANGED <<Self, tokens, decoded, Unused>>

\* the state of the call after the locals d
Running(d) ==
    /\ dec' = d
    /\ raised' = d.exc
    /\ pc' = IF d.exc = "" THEN "decoding" ELSE "raised"
    /\ UNCHANGED <<Self, Vocabulary, tokens, decoded, Unused>>

\* tokenizer(tokens), CPWord: _tokens_to_midi up to the loop over the tokens
CPDecodeCall ==
    /\ tokenizer = "CPWord" /\ pc = "predicting"
    /\ Running(SeqStart(TokensToMidiInit(time_division, None), tokens[1]))

CPDecodeToken ==
    /\ tokenizer = "CPWord" /\ pc = "decoding" /\ dec.i <= Len(tokens[1])
    /\ Running(DecodeToken(dec, tokens[1][dec.i]))

CPDecodeReturn ==
    /\ tokenizer = "CPWord" /\ pc = "decoding" /\ dec.i > Len(tokens[1])
    /\ dec' = SeqEnd(dec)
    /\ decoded' = TokensToMidiReturn(dec')
    /\ pc' = "decoded"
    /\ UNCHANGED <<Self, Vocabulary, tokens, raised, Unused>>

\* tokenizer(tokens), MuMIDI: _tokens_to_midi up to the loop over the steps
MuDecodeCall ==
    /\ tokenizer = "MuMIDI" /\ pc = "predicting"
    /\ Running(MuTokensToMidiInit(tokens, time_division))

MuDecodeToken ==
    /\ tokenizer = "MuMIDI" /\ pc = "decoding" /\ dec.i <= Len(tokens)
    /\ Running(MuDecodeStep(dec, tokens[dec.i]))

MuDecodeReturn ==
    /\ tokenizer = "MuMIDI" /\ pc = "decoding" /\ dec.i > Len(tokens)
    /\ decoded' = MuTokensToMidiReturn(dec)
    /\ pc' = "decoded"
    /\ UNCHANGED <<Self, Vocabulary, tokens, dec, raised, Unused>>

NextDecode ==
    \/ Predict
    \/ CPDecodeCall \/ CPDecodeToken \/ CPDecodeReturn
    \/ MuDecodeCall \/ MuDecodeToken \/ MuDecodeReturn

SpecDecode == InitDecode /\ [][NextDecode]_vars

-----------------------------------------------------------------------------
(* Totality of the decoders *)

\* C6: no decode call on a sequence of vocabulary tokens ends by raising:
\* pooled and interleaved decode run to completion and return a piece
C6_DecodeNeverRaises == pc # "raised"

-----------------------------------------------------------------------------
(* Note tokens with an absent sub-field *)

\* a Note token of the pooled scheme with an absent sub-field among Pitch,
\* Velocity, Duration and, with programs, Program
CPAbsentNote(compound_token) ==
    /\ Family(compound_token) = "Note"
    /\ \E k \in 2..(IF config.use_programs THEN 5 ELSE 4) :
          Field(compound_token, k).value = None

\* a Pitch or DrumPitch step of the interleaved scheme whose Velocity or
\* Duration is None
MuAbsentNote(time_step) ==
    /\ time_step[1].type \in {"Pitch", "DrumPitch"}
    /\ \/ time_step[Len(time_step) - 1].value = None
       \/ time_step[Len(time_step)].value = None

\* the loop of the running decode call is at a note token with an absent
\* sub-field
AtAbsentNote ==
    /\ pc = "decoding"
    /\ \/ /\ tokenizer = "CPWord" /\ dec.i <= Len(tokens[1])
          /\ CPAbsentNote(tokens[1][dec.i])
       \/ /\ tokenizer = "MuMIDI" /\ dec.i <= Len(tokens)
          /\ MuAbsentNote(tokens[dec.i])

\* what the token is to leave alone
Cursors(d) ==
    IF tokenizer = "CPWord"
    THEN <<d.current_tick, d.current_bar, d.tick_at_current_bar,
           d.previous_note_end, d.tracks, d.tempo_changes,
           d.time_signature_changes>>
    ELSE <<d.current_tick, d.current_bar, d.tracks, d.tempos>>

\* C7: the turn of the decode loop on a note token with an absent sub-field
\* (pooled: Pitch, Velocity, Duration or Program; interleaved: Velocity or
\* Duration of a Pitch or DrumPitch step) goes on to the next token without
\* raising, appends no note and leaves the tick and bar cursors, the end of
\* the latest note, the tracks and the tempo and time-signature lists as
\* they were
C7_AbsentNoteSkipped ==
    [][(AtAbsentNote /\ dec' # dec) =>
            /\ pc' = "decoding" /\ raised' = ""
            /\ dec'.i = dec.i + 1
            /\ Cursors(dec') = Cursors(dec)]_vars

\* a pooled Note token that names a program and lacks another sub-field has
\* been skipped, after the tick cursor left 0 and a track was made
C7_Witness ==
    /\ tokenizer = "CPWord" /\ pc = "decoding" /\ dec.i = 4
    /\ CPAbsentNote(tokens[1][3])
    /\ Field(tokens[1][3], 5).value # None
    /\ dec.current_tick > 0
    /\ dec.tracks # <<>>

-----------------------------------------------------------------------------
(* MuMIDI: the check of the bar embedding limit, step by step *)

\* last tick of the pieces encoded
MaxGrowTick == 16
\* number of encode calls made on the tokenizer
MaxCalls == 3

\* the locals of an encode call that has not started
NoCall == [at |-> "idle", num_bars |-> 0, i |-> 0]

InitGrow(threads) ==
    /\ tokenizer = "MuMIDI"
    /\ config = MuConfig(FALSE, FALSE)
    /\ time_division = 1
    /\ max_bar_embedding = 1
    /\ vocab = BaseBarPosEnc(1)
    /\ pc = "encoding"
    /\ events = <<>>
    /\ midi = <<>>
    /\ enc = [t \in 1..threads |-> NoCall]
    /\ tokens = <<>>
    /\ dec = Idle
    /\ decoded = Idle
    /\ val = Idle
    /\ raised = ""
    /\ calls = 0

GrowFrame == <<Self, pc, events, midi, tokens, dec, decoded, val, raised>>

\* tokenizer(midi) in thread t: num_bars is computed
GrowCall(t) ==
    /\ enc[t].at \in {"idle", "done"} /\ calls < MaxCalls
    /\ \E max_tick \in 0..MaxGrowTick :
          enc' = [enc EXCEPT ![t] = [at |-> "check",
                                     num_bars |-> NumBarsOf(max_tick, time_division),
                                     i |-> 0]]
    /\ calls' = calls + 1
    /\ UNCHANGED <<GrowFrame, Vocabulary>>

\* if max_bar_embedding < num_bars
GrowCheck(t) ==
    /\ enc[t].at = "check"
    /\ enc' = [enc EXCEPT ![t].at =
                  IF max_bar_embedding < enc[t].num_bars THEN "range" ELSE "done"]
    /\ UNCHANGED <<GrowFrame, Vocabulary, calls>>

\* range(0, num_bars): the labels counted from the first one
GrowRange_FromZero(t) ==
    /\ enc[t].at = "range"
    /\ enc' = [enc EXCEPT ![t].at = "loop", ![t].i = 0]
    /\ UNCHANGED <<GrowFrame, Vocabulary, calls>>

\* range(max_bar_embedding, num_bars)
GrowRange(t) ==
    /\ enc[t].at = "range"
    /\ enc' = [enc EXCEPT ![t].at = "loop", ![t].i = max_bar_embedding]
    /\ UNCHANGED <<GrowFrame, Vocabulary, calls>>

\* add_to_vocab(f"BarPosEnc_{i}", 1)
GrowAdd(t) ==
    /\ enc[t].at = "loop" /\ enc[t].i < enc[t].num_bars
    /\ vocab' = add_to_vocab(vocab, Tk("BarPosEnc", <<enc[t].i>>))
    /\ enc' = [enc EXCEPT ![t].i = @ + 1]
    /\ UNCHANGED <<GrowFrame, max_bar_embedding, calls>>

\* max_bar_embedding = num_bars; the rest of the call leaves the vocabulary
GrowStore(t) ==
    /\ enc[t].at = "loop" /\ enc[t].i >= enc[t].num_bars
    /\ max_bar_embedding' = enc[t].num_bars
    /\ enc' = [enc EXCEPT ![t].at = "done"]
    /\ UNCHANGED <<GrowFrame, vocab, calls>>

NextGrow ==
    \E t \in DOMAIN enc :
        GrowCall(t) \/ GrowCheck(t) \/ GrowRange(t) \/ GrowAdd(t) \/ GrowStore(t)

\* the calls made one after the other, and made by two threads
SpecGrow == InitGrow(1) /\ [][NextGrow]_vars
SpecGrowThreads == InitGrow(2) /\ [][NextGrow]_vars

-----------------------------------------------------------------------------
(* Vocabulary growth *)

IsPrefix(s, t) == Len(s) <= Len(t) /\ SubSeq(t, 1, Len(s)) = s

\* sub-vocabulary 1 is BarPosEnc_0, BarPosEnc_1, ... in this order: no label
\* twice, the label of index i is BarPosEnc_i
InOrder(voc) == voc = BarPosEncLabels(0, Len(voc))

\* between the growth loops the labels are those below max_bar_embedding;
\* in the loop of a call they are those below its counter, which runs from
\* the old max_bar_embedding to num_bars
GrowthExact ==
    /\ InOrder(vocab)
    /\ \A t \in DOMAIN enc :
          IF enc[t].at = "loop"
          THEN /\ Len(vocab) = enc[t].i
               /\ max_bar_embedding <= enc[t].i /\ enc[t].i <= enc[t].num_bars
          ELSE Len(vocab) = max_bar_embedding

\* a step of a call never lowers max_bar_embedding, keeps every label at its
\* index, and stores num_bars once the labels up to it are there
GrowthStep ==
    /\ max_bar_embedding' >= max_bar_embedding
    /\ IsPrefix(vocab, vocab')
    /\ max_bar_embedding' # max_bar_embedding =>
          /\ vocab' = vocab
          /\ \E t \in DOMAIN enc :
                /\ enc[t].num_bars > max_bar_embedding
                /\ max_bar_embedding' = enc[t].num_bars
                /\ vocab' = BarPosEncLabels(0, max_bar_embedding)
                                \o BarPosEncLabels(max_bar_embedding, enc[t].num_bars)

\* C8: over any sequence of interleaved-scheme encode calls made one after
\* the other, max_bar_embedding never decreases, a call with num_bars above
\* max_bar_embedding appends exactly BarPosEnc_i for i from the old
\* max_bar_embedding to num_bars - 1, each once and in ascending order, and
\* no label that has an index is removed, duplicated or moved
C8_GrowthAppendOnly == []GrowthExact /\ [][GrowthStep]_vars

\* a third call, on a piece shorter than the four bars the vocabulary has
\* grown to, has left the vocabulary alone
C8_Witness ==
    /\ DOMAIN enc = {1} /\ calls = 3 /\ enc[1].at = "done"
    /\ enc[1].num_bars = 2
    /\ max_bar_embedding = 4 /\ Len(vocab) = 4

-----------------------------------------------------------------------------
(* Vocabulary growth, two encode calls at a time *)

\* C9: with two interleaved-scheme encode calls running on one tokenizer,
\* interleaved anywhere in check-max / append-labels / store-new-max, no
\* label BarPosEnc_i is ever appended twice, and when both calls are over
\* max_bar_embedding is not below the bar count of either piece (it is the
\* larger of the two)
C9_GrowthSerialized ==
    /\ \A a, b \in 1..Len(vocab) : vocab[a] = vocab[b] => a = b
    /\ (calls = 2 /\ \A t \in DOMAIN enc : enc[t].at = "done") =>
          \A t \in DOMAIN enc : max_bar_embedding >= enc[t].num_bars

-----------------------------------------------------------------------------
(* The encoders of both schemes *)

\* the pooled tokenizers with every flag, with programs and on the finer
\* grid, the interleaved ones with every flag and with off-grid ticks
EncodeCPSetups ==
    {<<CPConfig(FALSE, TRUE, TRUE, TRUE, TRUE), 1>>,
     <<CPConfig(TRUE, FALSE, FALSE, TRUE, TRUE), 1>>,
     <<FineConfig, 2>>}

EncodeMuSetups == {<<MuConfig(TRUE, TRUE), 1>>, <<MuConfig(FALSE, FALSE), 2>>}

InitEncode == InitWith(EncodeCPSetups) \/ InitMuWith(EncodeMuSetups)

NextEncode == NextCP \/ NextMu

SpecEncode == InitEncode /\ [][NextEncode]_vars

-----------------------------------------------------------------------------
(* Grid monotonicity *)

Encoding == pc \in {"add_time_events", "midi_to_tokens"}

\* the kind of the k-th token emitted so far by the running encode call:
\* "Bar", "Rest", "Position" or "Other"
TimeKind(k) ==
    IF tokenizer = "CPWord"
    THEN LET tok == enc.all_events[k]
         IN  IF tok[1].value = "Note" THEN "Other"
             ELSE IF tok[2].type_ \in {"Bar", "Position"} THEN tok[2].type_
             ELSE "Rest"
    ELSE LET step == enc.tokens[k]
         IN  IF step[1].type \in {"Bar", "Position"} THEN step[1].type
             ELSE "Other"

\* the value of the k-th token, a Position token
PositionValue(k) ==
    IF tokenizer = "CPWord" THEN enc.all_events[k][2].value[1]
    ELSE enc.tokens[k][1].value[1]

Emitted == IF tokenizer = "CPWord" THEN Len(enc.all_events) ELSE Len(enc.tokens)

\* the Position values between two Bar tokens, no Rest token in between, are
\* non-decreasing in the order of emission
PositionsInOrder ==
    Encoding =>
        \A a, b \in 1..Emitted :
            (/\ a < b /\ TimeKind(a) = "Position" /\ TimeKind(b) = "Position"
             /\ \A k \in a..b : TimeKind(k) \notin {"Bar", "Rest"})
            => PositionValue(a) <= PositionValue(b)

\* the bar cursor does not go back from one event to the next
BarCursorStep == (Encoding /\ Encoding') => enc'.current_bar >= enc.current_bar

\* C10: in one encode pass of the pooled scheme and in one of the
\* interleaved scheme, current_bar never decreases from one event to the
\* next, and the Position values emitted between two consecutive Bar tokens
\* with no Rest token in between are non-decreasing in emission order
C10_GridMonotone == []PositionsInOrder /\ [][BarCursorStep]_vars

\* a pooled encode pass with rests has reached a second bar and emitted two
\* different Position values in one bar
C10_Witness ==
    /\ tokenizer = "CPWord" /\ config.use_rests /\ pc = "add_time_events"
    /\ enc.current_bar >= 1
    /\ \E a, b \in 1..Emitted :
          /\ a < b /\ TimeKind(a) = "Position" /\ TimeKind(b) = "Position"
          /\ \A k \in a..b : TimeKind(k) \notin {"Bar", "Rest"}
          /\ PositionValue(a) < PositionValue(b)

-----------------------------------------------------------------------------
(* The content of a compound token, pooled scheme *)

\* the sub-field of a type is populated: it holds an event of that type
Populated(cp_token, type) ==
    /\ type \in {"Bar"} \cup {token_types[i] : i \in 2..Len(token_types)}
    /\ Field(cp_token, vocab_types_idx(type)).type_ = type

\* the contents a compound token may carry
BarContent(cp_token) ==
    Populated(cp_token, "Bar") /\ Field(cp_token, 1).value = None
PositionContent(cp_token) ==
    Populated(cp_token, "Position") /\ IsNumber(Field(cp_token, 1).value)
RestContent(cp_token) == Populated(cp_token, "Rest")
NoteContent(cp_token) ==
    /\ Populated(cp_token, "Pitch")
    /\ Populated(cp_token, "Velocity")
    /\ Populated(cp_token, "Duration")

ContentCount(cp_token) ==
    Cardinality({c \in {"Bar", "Position", "Rest", "Note"} :
        CASE c = "Bar" -> BarContent(cp_token)
          [] c = "Position" -> PositionContent(cp_token)
          [] c = "Rest" -> RestContent(cp_token)
          [] c = "Note" -> NoteContent(cp_token)})

EnabledOptionalFields ==
    Cardinality({f \in {"use_programs", "use_chords", "use_rests", "use_tempos",
                        "use_time_signatures"} : config[f]})

\* a sub-field is either populated with its own type or the placeholder
OwnTypeOrIgnore(cp_token) ==
    \A i \in 2..Len(cp_token) :
        \/ cp_token[i].type_ = "Ignore" /\ cp_token[i].value = None
        \/ cp_token[i].type_ = token_types[i] /\ cp_token[i].value # None
        \/ i = 2 /\ cp_token[i].type_ = "Bar" /\ cp_token[i].value = None

OneContent(cp_token) ==
    /\ Len(cp_token) = 5 + EnabledOptionalFields
    /\ cp_token[1].type_ = "Family"
    /\ ContentCount(cp_token) = 1
    /\ OwnTypeOrIgnore(cp_token)
    /\ \A type \in {"Pitch", "Velocity", "Duration"} :
          Populated(cp_token, type) => NoteContent(cp_token)
    /\ Family(cp_token) = (IF NoteContent(cp_token) THEN "Note" ELSE "Metric")
    /\ Populated(cp_token, "Chord") => PositionContent(cp_token)
    /\ Populated(cp_token, "Tempo") => PositionContent(cp_token)
    /\ Populated(cp_token, "TimeSig") => BarContent(cp_token)
    /\ Populated(cp_token, "Program") => NoteContent(cp_token)

-----------------------------------------------------------------------------
(* The validators on any sequence of tokens, token by token *)

\* length of a sequence given to a validator
MaxCheckTokens == 4

\* the tokenizers that validate: CPWord with rests, MuMIDI, both with
\* remove_duplicated_notes
CheckSetups ==
    {<<"CPWord", [CPConfig(FALSE, FALSE, TRUE, FALSE, FALSE) EXCEPT
                    !.remove_duplicated_notes = TRUE]>>,
     <<"MuMIDI", MuConfig(FALSE, FALSE)>>}

\* compound tokens (Family, Bar/Position, Pitch, Velocity, Duration, Rest):
\* Note tokens with and without a pitch, Bar, Position and Rest tokens, a
\* Metric token with nothing in it, a padded one
CPCheckTokens ==
    {<<Tk("Family", "Note"), Ignore, p, Tk("Velocity", <<80>>),
       Tk("Duration", <<1, 0, 1>>), Ignore>> :
        p \in {Ignore, Tk("Pitch", <<60>>), Tk("Pitch", <<62>>)}}
    \cup {<<Tk("Family", "Metric"), first, Ignore, Ignore, Ignore, rest>> :
            first \in {Tk("Bar", None), Tk("Position", <<0>>), Tk("Position", <<1>>)},
            rest \in {Ignore}}
    \cup {<<Tk("Family", "Metric"), Ignore, Ignore, Ignore, Ignore, rest>> :
            rest \in {Ignore, Tk("Rest", <<1, 0, 1>>)}}
    \cup {<<Tk("Family", "None"), Ignore, Ignore, Ignore, Ignore, Ignore>>}

\* time steps (type, BarPosEnc, PositionPosEnc, and Velocity, Duration for a
\* note): the position embedding may differ from the Position value and lie
\* behind the cursor
MuCheckTokens ==
    {<<Tk("Bar", None), Tk("BarPosEnc", <<b>>), Tk("PositionPosEnc", None)>> :
        b \in {0, 1}}
    \cup {<<Tk("Position", <<p>>), Tk("BarPosEnc", <<0>>),
            Tk("PositionPosEnc", <<e>>)>> : p \in {0, 1}, e \in {0, 1}}
    \cup {<<Tk("Program", <<0>>), Tk("BarPosEnc", <<0>>),
            Tk("PositionPosEnc", <<e>>)>> : e \in {1}}
    \cup {<<Tk("Pitch", <<60>>), Tk("BarPosEnc", <<0>>), Tk("PositionPosEnc", <<e>>),
            v, Tk("Duration", <<1, 0, 1>>)>> :
            e \in {0, 1}, v \in {Tk("Velocity", <<80>>)}}
    \cup {<<Tk("Pitch", <<60>>), Tk("BarPosEnc", <<0>>), Tk("PositionPosEnc", <<1>>),
            PAD, Tk("Duration", <<1, 0, 1>>)>>}

SeqsUpTo(S, n) == UNION {[1..k -> S] : k \in 0..n}

InitCheck ==
    /\ \E setup \in CheckSetups : tokenizer = setup[1] /\ config = setup[2]
    /\ time_division = 1
    /\ max_bar_embedding = IF tokenizer = "MuMIDI" THEN 1 ELSE 0
    /\ vocab = IF tokenizer = "MuMIDI" THEN BaseBarPosEnc(1) ELSE <<>>
    /\ pc = "idle"
    /\ events = <<>>
    /\ midi = <<>>
    /\ enc = Idle
    /\ tokens = <<>>
    /\ dec = Idle
    /\ decoded = Idle
    /\ val = Idle
    /\ raised = ""
    /\ calls = 0

\* the state of the call after the locals v
Checking(v) ==
    /\ val' = v
    /\ raised' = v.exc
    /\ pc' = IF v.exc = "" THEN "tokens_errors" ELSE "raised"
    /\ UNCHANGED <<Self, Vocabulary, events, midi, enc, dec, decoded, calls>>

\* CPWord._tokens_errors up to the loop: tokens[0] of an empty sequence and
\* cp_token_type of the first token may raise
CPTokensErrorsEntry(toks) ==
    IF toks = <<>> THEN [exc |-> "IndexError", err |-> 0]
    ELSE IF cp_token_type(toks[1]).type = "RuntimeError"
    THEN [exc |-> "RuntimeError", err |-> 0]
    ELSE CPTokensErrorsInit(toks)

CPErrorsCall ==
    /\ tokenizer = "CPWord" /\ pc = "idle"
    /\ \E toks \in SeqsUpTo(CPCheckTokens, MaxCheckTokens) :
          /\ tokens' = <<toks>>
          /\ Checking(CPTokensErrorsEntry(toks))

CPErrorsToken ==
    /\ tokenizer = "CPWord" /\ pc = "tokens_errors" /\ val.i <= Len(tokens[1])
    /\ Checking(CPTokensErrorsStep(val, tokens[1][val.i]))
    /\ UNCHANGED tokens

CPErrorsReturn ==
    /\ tokenizer = "CPWord" /\ pc = "tokens_errors" /\ val.i > Len(tokens[1])
    /\ pc' = "checked"
    /\ UNCHANGED <<Self, Vocabulary, events, midi, enc, tokens, dec, decoded, val,
                   raised, calls>>

MuErrorsCall ==
    /\ tokenizer = "MuMIDI" /\ pc = "idle"
    /\ \E toks \in SeqsUpTo(MuCheckTokens, MaxCheckTokens) :
          /\ tokens' = toks
          /\ Checking(MuTokensErrorsInit(toks))

MuErrorsToken ==
    /\ tokenizer = "MuMIDI" /\ pc = "tokens_errors" /\ val.i <= Len(tokens)
    /\ Checking(MuTokensErrorsStep(val, tokens[val.i]))
    /\ UNCHANGED tokens

MuErrorsReturn ==
    /\ tokenizer = "MuMIDI" /\ pc = "tokens_errors" /\ val.i > Len(tokens)
    /\ pc' = "checked"
    /\ UNCHANGED <<Self, Vocabulary, events, midi, enc, tokens, dec, decoded, val,
                   raised, calls>>

NextCheck ==
    \/ CPErrorsCall \/ CPErrorsToken \/ CPErrorsReturn
    \/ MuErrorsCall \/ MuErrorsToken \/ MuErrorsReturn

SpecCheck == InitCheck /\ [][NextCheck]_vars

\* the validator of a scheme has returned
Returned(scheme) == tokenizer = scheme /\ pc = "checked"

\* the sequence the validator of a scheme was given
Given(scheme) == IF scheme = "CPWord" THEN tokens[1] ELSE tokens

\* a turn of the loop of the validator of a scheme adds 0 or 1 to the count
OnePerToken(scheme) ==
    (tokenizer = scheme /\ pc = "tokens_errors" /\ pc' = "tokens_errors")
        => val'.err - val.err \in {0, 1}

\* C12: the count the pooled validator returns for a non-empty sequence of
\* compound tokens is at most the number of tokens, and each turn of its loop
\* (each token after the first) adds 0 or 1 to it.
C12_CPErrorsBounded ==
    /\ [](Returned("CPWord") => val.err <= Len(Given("CPWord")))
    /\ [][OnePerToken("CPWord")]_vars

\* the pooled validator returned from a sequence of full length in which a
\* pitch is played three times at one position: the two repeats are counted,
\* one each
C12_Witness ==
    /\ Returned("CPWord")
    /\ Len(tokens[1]) = MaxCheckTokens
    /\ cp_token_type(tokens[1][1]).type = "Position"
    /\ \A k \in 2..MaxCheckTokens :
          cp_token_type(tokens[1][k]) = Tk("Pitch", <<60>>)
    /\ val.err = 2

\* C13: the count the interleaved validator returns for a non-empty sequence
\* of token lists is at most the number of tokens, and each turn of its loop
\* (each token after the first) adds 0 or 1 to it, also on a Position or
\* Pitch token that is both a value error and behind the bar/position cursor.
C13_MuErrorsBounded ==
    /\ [](Returned("MuMIDI") => val.err <= Len(Given("MuMIDI")))
    /\ [][OnePerToken("MuMIDI")]_vars

-----------------------------------------------------------------------------
(* Pooled decode of one token sequence per track *)

\* length of each of the sequences decoded together
MaxSeqTokens == 3

\* CPWord without programs, with rests, tempos and time signatures
MultiConfig == CPConfig(FALSE, FALSE, TRUE, TRUE, TRUE)

\* compound tokens (Family, Bar/Position, Pitch, Velocity, Duration, Rest,
\* Tempo, TimeSig): a Note token, Bar tokens of two time signatures and one
\* without, a Position token with a tempo, a Rest token
MultiTokens ==
    {<<Tk("Family", "Note"), Ignore, Tk("Pitch", <<60>>), Tk("Velocity", <<80>>),
       Tk("Duration", <<1, 0, 1>>), Ignore, Ignore, Ignore>>,
     <<Tk("Family", "Metric"), Tk("Position", <<1>>), Ignore, Ignore, Ignore,
       Ignore, Tk("Tempo", <<100>>), Ignore>>,
     <<Tk("Family", "Metric"), Ignore, Ignore, Ignore, Ignore,
       Tk("Rest", <<1, 0, 1>>), Ignore, Ignore>>}
    \cup {<<Tk("Family", "Metric"), Tk("Bar", None), Ignore, Ignore, Ignore,
            Ignore, Ignore, ts>> :
            ts \in {Ignore, Tk("TimeSig", <<4, 4>>), Tk("TimeSig", <<2, 4>>)}}

InitMulti ==
    /\ tokenizer = "CPWord"
    /\ config = MultiConfig
    /\ time_division = 1
    /\ max_bar_embedding = 0
    /\ vocab = <<>>
    /\ pc = "idle"
    /\ events = <<>>
    /\ midi = <<>>
    /\ enc = Idle
    /\ tokens = <<>>
    /\ dec = Idle
    /\ decoded = Idle
    /\ val = Idle
    /\ raised = ""
    /\ calls = 0

\* tokenizer(tokens) on two sequences: _tokens_to_midi up to the loop over
\* the sequences
MultiDecodeCall ==
    /\ pc = "idle"
    /\ \E first \in SeqsUpTo(MultiTokens, MaxSeqTokens),
          later \in SeqsUpTo(MultiTokens, MaxSeqTokens) :
          tokens' = <<first, later>>
    /\ dec' = TokensToMidiInit(time_division, None)
    /\ pc' = "decoding"
    /\ UNCHANGED <<Self, Vocabulary, decoded, raised, Unused>>

\* one turn of the loop over the sequences
MultiDecodeSeq ==
    /\ pc = "decoding" /\ dec.si <= Len(tokens)
    /\ LET d == DecodeSeq(SeqStart(dec, tokens[dec.si]), tokens[dec.si])
       IN  /\ dec' = IF d.exc = "" THEN SeqEnd(d) ELSE d
           /\ raised' = d.exc
           /\ pc' = IF d.exc = "" THEN "decoding" ELSE "raised"
    /\ UNCHANGED <<Self, Vocabulary, tokens, decoded, Unused>>

MultiDecodeReturn ==
    /\ pc = "decoding" /\ dec.si > Len(tokens)
    /\ decoded' = TokensToMidiReturn(dec)
    /\ pc' = "decoded"
    /\ UNCHANGED <<Self, Vocabulary, tokens, dec, raised, Unused>>

NextMulti == MultiDecodeCall \/ MultiDecodeSeq \/ MultiDecodeReturn

SpecMulti == InitMulti /\ [][NextMulti]_vars

\* the piece decode returns for one sequence alone
DecodedAlone(seq) ==
    TokensToMidiReturn(DecodeSeqs(TokensToMidiInit(time_division, None), <<seq>>))

\* the tempo and time-signature lists returned are those of the first
\* sequence decoded alone: no later sequence has a part in them
ListsOfFirst ==
    pc = "decoded" =>
        /\ decoded.tempos = DecodedAlone(tokens[1]).tempos
        /\ decoded.time_signatures = DecodedAlone(tokens[1]).time_signatures

\* the turn of the loop on a later sequence leaves both lists as they were
LaterKeepsLists ==
    (pc = "decoding" /\ dec.si > 1 /\ dec.si <= Len(tokens) /\ pc' = "decoding")
        => /\ dec'.tempo_changes = dec.tempo_changes
           /\ dec'.time_signature_changes = dec.time_signature_changes

\* a later sequence that opens with a Bar token is on the grid of its own Bar
\* tokens: its notes are where decode puts them when it is the only sequence
OwnGrid ==
    (pc = "decoded" /\ tokens[2] # <<>> /\ Field(tokens[2][1], 1).type = "Bar")
        => decoded.tracks[2].notes = DecodedAlone(tokens[2]).tracks[1].notes

\* C14: in pooled decode of one sequence per track (use_programs false) the
\* tempo list and the time-signature list returned are determined by the
\* first sequence alone, whatever the later sequence is, while the later
\* sequence places its own notes by its own Bar/TimeSig tokens.
C14_ListsFromFirstSequence ==
    /\ []ListsOfFirst
    /\ [][LaterKeepsLists]_vars
    /\ []OwnGrid

\* two sequences decoded together, the first of one 4/4 bar, the later one of
\* two 2/4 bars and a note: the list returned holds 4/4 only, and the note is
\* at the start of the second 2/4 bar, tick 2
C14_Witness ==
    /\ pc = "decoded"
    /\ Len(tokens[1]) = 1
    /\ Field(tokens[1][1], vocab_types_idx("TimeSig")) = Tk("TimeSig", <<4, 4>>)
    /\ Len(tokens[2]) = 3
    /\ \A k \in 1..2 :
          Field(tokens[2][k], vocab_types_idx("TimeSig")) = Tk("TimeSig", <<2, 4>>)
    /\ decoded.time_signatures = << <<0, 4, 4>> >>
    /\ Len(decoded.tracks[2].notes) = 1
    /\ decoded.tracks[2].notes[1].time = 2

-----------------------------------------------------------------------------
(* The range of the Position values, pooled scheme *)

\* the compound tokens a turn of the encode loop appends
Appended == SubSeq(enc'.all_events, Len(enc.all_events) + 1, Len(enc'.all_events))

\* the Position tokens a turn of the encode loop appends lie in the bar of
\* the time signature in force for its event (a TimeSig event appends none,
\* so the ticks_per_bar after the turn is the one its Position was cut by)
PositionInBar ==
    pc = "add_time_events" =>
        \A k \in 1..Len(Appended) :
            PositionContent(Appended[k]) =>
                LET p == Field(Appended[k], 1).value[1]
                IN  /\ 0 <= p
                    /\ p * (time_division \div MaxBeatRes) < enc'.ticks_per_bar

\* C15: every Position token the pooled encoder emits has a value p with
\* 0 <= p < ticks_per_bar / ticks_per_sample, ticks_per_bar being that of the
\* time signature in force at the tick of the event, for every time-ascending
\* event stream, its time-signature changes on a bar boundary or not.
C15_PositionInBar == [][PositionInBar]_vars

-----------------------------------------------------------------------------
(* The grid and the tempo a pooled encode pass starts from *)

\* the events of a type at tick 0 that no note event precedes
SeedsAtZero(evs, type_) ==
    {i \in 1..Len(evs) :
        /\ evs[i].type_ = type_ /\ evs[i].time = 0
        /\ \A j \in 1..(i - 1) : evs[j].type_ \notin NoteTypes}

\* the value of the first of them, a default if there is none
SeedAtZero(evs, type_, default) ==
    IF SeedsAtZero(evs, type_) = {} THEN default
    ELSE evs[CHOOSE i \in SeedsAtZero(evs, type_) :
                \A j \in SeedsAtZero(evs, type_) : i <= j].value

\* the encode pass is at the head of its loop, the two scans done
ScansDone == pc = "add_time_events" /\ enc.e = 1

\* C16: a pooled encode pass starts from the time signature of a TimeSig
\* event at tick 0 that precedes the first note event, from 4/4 if there is
\* none (also when the first TimeSig event precedes the first note at a tick
\* > 0), and likewise from the tempo of a Tempo event at tick 0 that precedes
\* the first note, from the default tempo otherwise.
C16_SeededAtTickZero ==
    ScansDone =>
        /\ enc.current_time_sig = SeedAtZero(events, "TimeSig", TIME_SIGNATURE)
        /\ enc.ticks_per_bar =
              compute_ticks_per_bar(SeedAtZero(events, "TimeSig", TIME_SIGNATURE),
                                    time_division)
        /\ <<enc.current_tempo>> =
              SeedAtZero(events, "Tempo", <<config.default_tempo>>)

-----------------------------------------------------------------------------
(* Decoding to a time division given by the caller *)

\* largest time division asked for, length of the sequences decoded
MaxDivision == 4
MaxDivTokens == 2

\* two samples per beat in the first beat, one in the second
FineBeatRes == << <<0, 1, 2>>, <<1, 2, 1>> >>

\* the tokenizers that decode, on the finer grid
DivisionSetups ==
    {<<"CPWord", [CPConfig(TRUE, FALSE, TRUE, TRUE, TRUE) EXCEPT
                    !.beat_res = FineBeatRes]>>,
     <<"MuMIDI", [MuConfig(FALSE, TRUE) EXCEPT !.beat_res = FineBeatRes]>>}

InitDivision ==
    /\ \E setup \in DivisionSetups : tokenizer = setup[1] /\ config = setup[2]
    /\ time_division = 2
    /\ max_bar_embedding = IF tokenizer = "MuMIDI" THEN 1 ELSE 0
    /\ vocab = IF tokenizer = "MuMIDI" THEN BaseBarPosEnc(1) ELSE <<>>
    /\ pc = "idle"
    /\ events = <<>>
    /\ midi = <<>>
    /\ enc = Idle
    /\ tokens = <<>>
    /\ dec = Idle
    /\ decoded = Idle
    /\ val = Idle
    /\ raised = ""
    /\ calls = 0

\* the state of the call after the locals d, before the first token
Called(d) ==
    /\ dec' = d
    /\ raised' = d.exc
    /\ pc' = IF d.exc = "" THEN "decoding" ELSE "raised"
    /\ UNCHANGED <<Self, Vocabulary, decoded, Unused>>

\* CPWord._tokens_to_midi(tokens, None, td) up to the loop over the tokens
CPDivisionCall ==
    /\ tokenizer = "CPWord" /\ pc = "idle"
    /\ \E td \in 1..MaxDivision, toks \in SeqsUpTo(CPVocabTokens, MaxDivTokens) :
          /\ tokens' = <<toks>>
          /\ LET d == TokensToMidiInit(td, None)
             IN  Called(IF d.exc # "" THEN d ELSE SeqStart(d, toks))

\* MuMIDI._tokens_to_midi(tokens, None, td) up to the loop over the steps
MuDivisionCall ==
    /\ tokenizer = "MuMIDI" /\ pc = "idle"
    /\ \E td \in 1..MaxDivision, toks \in SeqsUpTo(MuVocabTokens, MaxDivTokens) :
          /\ tokens' = toks
          /\ Called(MuTokensToMidiInit(toks, td))

NextDivision ==
    \/ CPDivisionCall \/ CPDecodeToken \/ CPDecodeReturn
    \/ MuDivisionCall \/ MuDecodeToken \/ MuDecodeReturn

SpecDivision == InitDivision /\ [][NextDivision]_vars

\* decode was called with a time division the largest beat resolution does
\* not divide
BadDivision == dec # Idle /\ dec.time_division % MaxBeatRes # 0

\* the call is where it was before its first token: no track, no note
NothingDecoded ==
    /\ dec.i = (IF tokenizer = "CPWord" THEN 0 ELSE 1)
    /\ dec.tracks = <<>>
    /\ dec.current_tick = 0 /\ dec.current_bar = -1

\* C17: pooled and interleaved decode called with a time division that the
\* largest configured beat resolution does not divide raise ValueError
\* before any token is decoded, and return no piece.
C17_BadDivisionRejected ==
    BadDivision =>
        /\ pc = "raised" /\ raised = "ValueError"
        /\ NothingDecoded
        /\ decoded = Idle

\* pooled decode of a Note token to time division 3, with two samples per
\* beat, ended by ValueError
C17_Witness ==
    /\ tokenizer = "CPWord" /\ pc = "raised" /\ raised = "ValueError"
    /\ dec.time_division = 3 /\ MaxBeatRes = 2
    /\ Len(tokens[1]) = MaxDivTokens
    /\ Family(tokens[1][1]) = "Note"
    /\ \A k \in 2..5 : Field(tokens[1][1], k).value # None

-----------------------------------------------------------------------------
(* Quantization of a note length *)

\* longest note quantized, in ticks, and largest number of beat-resolution
\* units in a time division
MaxDuration == 36
MaxUnits == 3

\* the beat_res of the tokenizers: <<first beat, last beat, samples per beat>>
BeatResTables ==
    {<< <<0, 2, 1>> >>,
     << <<0, 2, 2>> >>,
     FineBeatRes,
     << <<0, 1, 4>>, <<1, 3, 2>> >>,
     << <<0, 1, 3>>, <<1, 2, 2>>, <<2, 4, 1>> >>}

\* the time division is a multiple of the largest beat resolution
InitQuantize ==
    /\ tokenizer = "MuMIDI"
    /\ \E beat_res \in BeatResTables :
          config = [MuConfig(FALSE, FALSE) EXCEPT !.beat_res = beat_res]
    /\ \E units \in 1..MaxUnits : time_division = units * MaxBeatRes
    /\ max_bar_embedding = 1
    /\ vocab = BaseBarPosEnc(1)
    /\ pc = "idle"
    /\ events = <<>>
    /\ midi = <<>>
    /\ enc = Idle
    /\ tokens = <<>>
    /\ dec = Idle
    /\ decoded = Idle
    /\ val = Idle
    /\ raised = ""
    /\ calls = 0

\* _track_to_tokens on a note of some length: the entry looked up
Quantize ==
    /\ \E duration \in 0..MaxDuration :
          enc' = [duration |-> duration,
                  dur_idx |-> ArgMinAbs(durations_ticks(time_division), duration) - 1]
    /\ pc' = "track_to_tokens"
    /\ UNCHANGED <<Self, Vocabulary, events, midi, tokens, dec, decoded, val, raised,
                   calls>>

SpecQuantize == InitQuantize /\ [][Quantize]_vars

\* the entries of the duration table whose tick length is the length looked up
EntriesOfLength ==
    {k \in 1..Len(durations) :
        token_duration_to_ticks(durations[k], time_division) = enc.duration}

\* C18: for every entry d of the duration table, the nearest-match lookup of
\* the tick length of d (the index of the first minimum of |tick length of
\* the entry - length|) is d itself: a length already quantized stays as it
\* is.
C18_QuantizeFixedPoint ==
    pc = "track_to_tokens" =>
        \A k \in EntriesOfLength : durations[enc.dur_idx + 1] = durations[k]

\* the length of the last entry of a table of two resolutions was looked up
C18_Witness ==
    /\ pc = "track_to_tokens"
    /\ Len(config.beat_res) = 2
    /\ Len(durations) \in EntriesOfLength
    /\ enc.dur_idx = Len(durations) - 1

-----------------------------------------------------------------------------
(* The tempo list pooled decode returns *)

\* length of the sequences decoded
MaxTempoTokens == 4

\* compound tokens (Family, Bar/Position, Pitch, Velocity, Duration, Rest,
\* Tempo, TimeSig): Position tokens at two positions with the default and
\* another tempo, a Bar token, a Rest token, a Note token
TempoTokens ==
    {<<Tk("Family", "Metric"), Tk("Position", <<p>>), Ignore, Ignore, Ignore,
       Ignore, Tk("Tempo", <<tempo>>), Ignore>> : p \in {0, 1}, tempo \in {100, 120}}
    \cup {<<Tk("Family", "Metric"), Tk("Bar", None), Ignore, Ignore, Ignore,
            Ignore, Ignore, Tk("TimeSig", <<4, 4>>)>>,
          <<Tk("Family", "Metric"), Ignore, Ignore, Ignore, Ignore,
            Tk("Rest", <<1, 0, 1>>), Ignore, Ignore>>,
          <<Tk("Family", "Note"), Ignore, Tk("Pitch", <<60>>), Tk("Velocity", <<80>>),
            Tk("Duration", <<1, 0, 1>>), Ignore, Ignore, Ignore>>}

\* tokenizer(tokens) on one sequence: _tokens_to_midi up to the loop over its
\* tokens
TempoDecodeCall ==
    /\ pc = "idle"
    /\ \E toks \in SeqsUpTo(TempoTokens, MaxTempoTokens) :
          /\ tokens' = <<toks>>
          /\ Called(SeqStart(TokensToMidiInit(time_division, None), toks))

NextTempos == TempoDecodeCall \/ CPDecodeToken \/ CPDecodeReturn

SpecTempos == InitMulti /\ [][NextTempos]_vars

\* the tick cursor after the first k tokens of a sequence
TickAfter(seq, k) ==
    DecodeSeq(SeqStart(TokensToMidiInit(time_division, None), seq),
              SubSeq(seq, 1, k)).current_tick

\* a Tempo sub-field of the sequence was decoded with the cursor at tick 0
TempoDecodedAtZero(seq) ==
    \E k \in 1..Len(seq) :
        /\ Family(seq[k]) = "Metric" /\ Field(seq[k], 1).type = "Position"
        /\ TickAfter(seq, k) = 0

\* C19: the tempo list pooled decode returns is non-empty, holds no mocked
\* entry (tick -1, tempo -1) and starts at tick 0; its first entry is the
\* default tempo when no Tempo sub-field was decoded at tick 0.
C19_TempoListSeeded ==
    pc = "decoded" =>
        /\ decoded.tempos # <<>>
        /\ \A k \in 1..Len(decoded.tempos) :
              decoded.tempos[k][1] # -1 /\ decoded.tempos[k][2] # -1
        /\ decoded.tempos[1][1] = 0
        /\ ~TempoDecodedAtZero(tokens[1])
              => decoded.tempos[1][2] = config.default_tempo

\* a sequence whose only tempo is decoded at tick 1 and is not the default
\* one: the list returned starts with the default tempo at tick 0 and goes on
\* with the tempo decoded
C19_Witness ==
    /\ pc = "decoded"
    /\ ~TempoDecodedAtZero(tokens[1])
    /\ dec.tempo_changes = << <<-1, -1>>, <<1, 100>> >>
    /\ decoded.tempos = << <<0, 120>>, <<1, 100>> >>

-----------------------------------------------------------------------------
(* The order of the time steps, interleaved scheme *)

\* the note and chord steps of the sequence returned, by their first token
StepsOut ==
    LET steps == SelectSeq(tokens,
                    LAMBDA ts : ts[1].type \in {"Pitch", "DrumPitch", "Chord"})
    IN  [k \in 1..Len(steps) |-> steps[k][1]]

\* the sequence returned carries the sorted time steps, in their order
InSortedOrder ==
    StepsOut = [k \in 1..Len(events) |-> Tk(events[k].type_, events[k].value)]

\* non-decreasing (start tick, track), the track of drums being -1
ByTickThenTrack ==
    \A k \in 1..(Len(events) - 1) :
        \/ events[k].time < events[k + 1].time
        \/ events[k].time = events[k + 1].time /\ events[k].desc <= events[k + 1].desc

\* the time steps of a tick and a track id, in the order of the sequence
Group(t, id) ==
    LET own == SelectSeq(events, LAMBDA e : e.time = t /\ e.desc = id)
    IN  [k \in 1..Len(own) |-> Tk(own[k].type_, own[k].value)]

\* what a track brings to a tick: its chord, then its notes in their order
OfTrack(track, t) ==
    LET chords == SelectSeq(track.chords, LAMBDA c : c.time = t)
        notes == SelectSeq(track.notes, LAMBDA n : n.start = t)
    IN  (IF config.use_chords /\ ~track.is_drum
         THEN [c \in 1..Len(chords) |-> Tk("Chord", chords[c].value)] ELSE <<>>)
        \o [n \in 1..Len(notes) |->
              Tk(IF track.is_drum THEN "DrumPitch" ELSE "Pitch", <<notes[n].pitch>>)]

\* the steps of a tick and a track id are those of the tracks of that id, one
\* track after the other, each with its chord before its notes
TrackBlocks ==
    \A t \in 0..MaxTick, id \in config.programs :
        Group(t, id) =
            Flatten([j \in 1..Len(midi.tracks) |->
                IF TrackId(midi.tracks[j]) = id
                      /\ midi.tracks[j].program \in config.programs
                THEN OfTrack(midi.tracks[j], t) ELSE <<>>])

\* with sorted tracks, the notes of the only track of an id at a tick are in
\* ascending pitch
AscendingPitch ==
    SortedByStartPitch(midi) =>
        \A t \in 0..MaxTick, id \in config.programs :
            Cardinality({j \in 1..Len(midi.tracks) : TrackId(midi.tracks[j]) = id}) = 1
                => LET notes == SelectSeq(Group(t, id), LAMBDA s : s.type # "Chord")
                   IN  \A k \in 1..(Len(notes) - 1) :
                          notes[k].value[1] <= notes[k + 1].value[1]

-----------------------------------------------------------------------------
(* The pooled scheme at 8 ticks per beat *)

\* number of items of a piece on the grid of 8 ticks per beat
MaxGridItems == 3
\* last beat at which an item of such a piece may start
MaxBeat == 5

\* eight samples per beat over four beats, rests of 1 to 4 whole beats
GridConfig(use_rests, use_tempos, use_time_signatures) ==
    [CPConfig(FALSE, FALSE, use_rests, use_tempos, use_time_signatures) EXCEPT
        !.beat_res = << <<0, 4, 8>> >>,
        !.beat_res_rest = << <<0, 4, 1>> >>,
        !.time_signatures = {<<4, 4>>, <<3, 4>>}]

GridSetups ==
    {<<GridConfig(r, FALSE, s), 8>> : r \in BOOLEAN, s \in BOOLEAN}
        \cup {<<GridConfig(FALSE, TRUE, FALSE), 8>>}

\* the notes of these pieces: <<pitch, velocity, length in ticks>>
GridShapes == {<<60, 80, 8>>, <<62, 100, 4>>}

GridItemsAt(t) ==
    {[kind |-> "Note", time |-> t, value |-> n, program |-> 0] : n \in GridShapes}
    \cup (IF config.use_time_signatures
          THEN {[kind |-> "TimeSig", time |-> t, value |-> <<3, 4>>, program |-> 0]}
          ELSE {})

\* the pieces of at most n items, in time order from beat b on, on the beats
RECURSIVE GridPieces(_, _)
GridPieces(n, b) ==
    IF n = 0 THEN {<<>>}
    ELSE {<<>>} \cup
         UNION {{<<it>> \o rest : rest \in GridPieces(n - 1, it.time \div time_division)} :
                    it \in UNION {GridItemsAt(u * time_division) : u \in b..MaxBeat}}

InitGrid == InitWith(GridSetups)

\* tokenizer(midi) on a piece of the grid
GridEncodeCall ==
    /\ tokenizer = "CPWord" /\ pc = "idle" /\ calls = 0
    /\ \E piece \in GridPieces(MaxGridItems, 0) :
          /\ midi' = piece
          /\ events' = PieceEvents(piece)
          /\ enc' = AddTimeEventsInit(PieceEvents(piece))
    /\ pc' = "add_time_events"
    /\ calls' = calls + 1
    /\ UNCHANGED <<Self, Vocabulary, tokens, dec, decoded, val, raised>>

NextGrid == GridEncodeCall \/ CPAddTimeEvents \/ CPEncodeReturn \/ CPDecode

SpecGrid == InitGrid /\ [][NextGrid]_vars

-----------------------------------------------------------------------------
(* One note *)

\* the piece of one note: pitch 60, velocity 80, start 0, one beat long
OneNote == midi = <<[kind |-> "Note", time |-> 0, value |-> <<60, 80, 8>>, program |-> 0]>>

\* Bar, Position_0, then the Note token Pitch_60, Velocity_80, Duration_1.0.8
BarPositionNote ==
    /\ Len(tokens) = 1 /\ Len(tokens[1]) = 3
    /\ Family(tokens[1][1]) = "Metric" /\ Field(tokens[1][1], 1) = Tk("Bar", None)
    /\ Family(tokens[1][2]) = "Metric" /\ Field(tokens[1][2], 1) = Tk("Position", <<0>>)
    /\ Family(tokens[1][3]) = "Note"
    /\ Field(tokens[1][3], 2) = Tk("Pitch", <<60>>)
    /\ Field(tokens[1][3], 3) = Tk("Velocity", <<80>>)
    /\ Field(tokens[1][3], 4) = Tk("Duration", <<1, 0, 8>>)

\* C21: at 8 ticks per beat in 4/4, the encoding of one note (pitch 60,
\* velocity 80, start 0, 8 ticks long) is exactly a Bar token, a Position_0
\* token and a Note token Pitch_60, Velocity_80, Duration_1.0.8, in this
\* order; their decoding is exactly one note at tick 0, 8 ticks long, of
\* pitch 60 and velocity 80.
C21_OneNote ==
    OneNote =>
        /\ pc \in {"encoded", "decoded"} => BarPositionNote
        /\ pc = "decoded" =>
              /\ Len(decoded.tracks) = 1
              /\ decoded.tracks[1].notes = <<Note(0, 8, 60, 80)>>

\* the note has been encoded and decoded by a tokenizer without options
C21_Witness ==
    /\ OneNote /\ pc = "decoded"
    /\ ~config.use_rests /\ ~config.use_tempos /\ ~config.use_time_signatures
    /\ Len(tokens[1]) = 3
    /\ decoded.tracks[1].notes = <<Note(0, 8, 60, 80)>>

-----------------------------------------------------------------------------
(* A rest of two beats *)

\* the indexes of the Note tokens of the sequence returned, in order
NoteIndexes ==
    SelectSeq([k \in 1..Len(tokens[1]) |-> k],
              LAMBDA k : Family(tokens[1][k]) = "Note")

\* the tick length of the Rest token at index k, 0 for another token
RestTicks(k) ==
    LET rest == Field(tokens[1][k], vocab_types_idx("Rest")).value
    IN  IF rest = None THEN 0 ELSE token_duration_to_ticks(rest, time_division)

IsRest(k) ==
    /\ Family(tokens[1][k]) = "Metric"
    /\ Field(tokens[1][k], 1).type = "Ignore"
    /\ Field(tokens[1][k], vocab_types_idx("Rest")).value # None

\* the end of the notes of a piece up to the item j
NotesEnd(piece, j) ==
    LET ends == {piece[i].time + piece[i].value[3] : i \in 1..j}
    IN  CHOOSE m \in ends : \A e \in ends : e <= m

\* the items j and j + 1 are notes of one 4/4 bar, the second one starting
\* `gap` ticks after the first one ends, no earlier note sounding longer
RestBetween(piece, j, gap) ==
    /\ \A i \in 1..Len(piece) : piece[i].kind = "Note"
    /\ piece[j + 1].time = piece[j].time + piece[j].value[3] + gap
    /\ NotesEnd(piece, j) = piece[j].time + piece[j].value[3]
    /\ piece[j].time \div (4 * time_division)
          = piece[j + 1].time \div (4 * time_division)

\* between the Note tokens j and j + 1: Rest tokens, one at least, of `gap`
\* ticks in all, then the Position token of the second note
RestsThenPosition(j, gap) ==
    LET a == NoteIndexes[j]
        b == NoteIndexes[j + 1]
    IN  /\ b - a >= 3
        /\ \A k \in (a + 1)..(b - 2) : IsRest(k)
        /\ SumSeq([k \in 1..(b - a - 2) |-> RestTicks(a + k)]) = gap
        /\ Field(tokens[1][b - 1], 1).type = "Position"
        /\ \A k \in (a + 1)..(b - 1) : Field(tokens[1][k], 1).type # "Bar"

\* C22: with rests enabled and a smallest rest of one beat, 8 ticks per beat,
\* a second note that starts 16 ticks after the first one ends, in the same
\* bar, has between the Note token of the first and its own Position token
\* one or more Rest tokens of 16 ticks in all, and no Bar token.
C22_RestOfTwoBeats ==
    (pc = "encoded" /\ config.use_rests /\ min_rest = time_division) =>
        \A j \in 1..(Len(midi) - 1) :
            RestBetween(midi, j, 2 * time_division) => RestsThenPosition(j, 2 * time_division)

\* a note of one beat at tick 0 and a note at tick 24 have been encoded
C22_Witness ==
    /\ pc = "encoded" /\ config.use_rests /\ min_rest = 8
    /\ Len(midi) = 2 /\ \A i \in 1..2 : midi[i].kind = "Note"
    /\ midi[1].time = 0 /\ midi[1].value[3] = 8 /\ midi[2].time = 24
    /\ RestBetween(midi, 1, 16)
    /\ Len(tokens[1]) = 6
    /\ IsRest(4) /\ RestTicks(4) = 16

-----------------------------------------------------------------------------
(* A change from 4/4 to 3/4 at tick 32 *)

\* a note in bar 0, the time signature 3/4 at tick 32, a note at tick 40
ChangeAtBarOne ==
    /\ Len(midi) = 3
    /\ midi[1].kind = "Note" /\ midi[1].time < 32
    /\ midi[2] = [kind |-> "TimeSig", time |-> 32, value |-> <<3, 4>>, program |-> 0]
    /\ midi[3].kind = "Note" /\ midi[3].time = 40

\* the Bar tokens of the sequence returned before the token at index k
BarsBefore(k) ==
    Cardinality({j \in 1..(k - 1) : Field(tokens[1][j], 1).type = "Bar"})

\* the encoder is past the TimeSig event: bars of 24 ticks, and the note at
\* tick 40 is put in the bar of index 1
EncodedInBarOne ==
    /\ (pc = "add_time_events" /\ enc.e > 4) => enc.ticks_per_bar = 24
    /\ (pc = "add_time_events" /\ enc.e > Len(events)) =>
          /\ enc.current_bar = 1
          /\ enc.tick_at_current_bar = 32
    /\ pc \in {"encoded", "decoded"} =>
          /\ Family(Last(tokens[1])) = "Note"
          /\ BarsBefore(Len(tokens[1])) = 2

\* the decoder ends on bars of 24 ticks, in the bar of index 1, the note at
\* tick 40
DecodedInBarOne ==
    pc = "decoded" =>
        /\ dec.ticks_per_bar = 24
        /\ dec.current_bar = 1
        /\ dec.tick_at_current_bar = 32
        /\ decoded.time_signatures = << <<0, 4, 4>>, <<32, 3, 4>> >>
        /\ Last(decoded.tracks[1].notes).time = 40

-----------------------------------------------------------------------------
(* The position of the note at tick 40 *)

\* the value of the Position token before the last Note token
LastPosition ==
    LET k == Len(tokens[1]) - 1
    IN  IF Field(tokens[1][k], 1).type = "Position"
        THEN Field(tokens[1][k], 1).value ELSE None

\* C24 as stated: in the piece that changes from 4/4 to 3/4 at tick 32, the
\* Position token of the note at tick 40 has the value 16.
C24_PositionSixteen ==
    (pc = "encoded" /\ config.use_time_signatures /\ ChangeAtBarOne) =>
        LastPosition = <<16>>

\* C24: in the piece that changes from 4/4 to 3/4 at tick 32, the Position
\* token of the note at tick 40 has the value 8, the offset of tick 40 in the
\* bar that starts at tick 32.
C24_PositionEight ==
    (pc = "encoded" /\ config.use_time_signatures /\ ChangeAtBarOne) =>
        /\ LastPosition = <<8>>
        /\ enc.tick_at_current_bar = 32
        /\ Last(enc.all_events)[1].time = 40

\* the piece has been encoded, its last Note token after a Position token
C24_Witness ==
    /\ pc = "encoded" /\ config.use_time_signatures /\ ChangeAtBarOne
    /\ LastPosition # None
    /\ Family(Last(tokens[1])) = "Note"

-----------------------------------------------------------------------------
(* Decode calls and the vocabulary *)

\* number of tokens of a sequence decoded past the bar embedding limit
MaxFrameTokens == 3

\* compound tokens given to the pooled decoder
CPFrameTokens ==
    {<<Tk("Family", "Note"), Ignore, Tk("Pitch", <<60>>), Tk("Velocity", <<80>>),
       Tk("Duration", <<1, 0, 1>>), Tk("Program", <<1>>), Ignore, Ignore, Ignore>>,
     <<Tk("Family", "Metric"), Tk("Bar", None), Ignore, Ignore, Ignore, Ignore,
       Ignore, Ignore, Tk("TimeSig", <<2, 4>>)>>,
     <<Tk("Family", "Metric"), Tk("Bar", None), Ignore, Ignore, Ignore, Ignore,
       Ignore, Ignore, Tk("TimeSig", <<4, 4>>)>>,
     <<Tk("Family", "Metric"), Tk("Position", <<1>>), Ignore, Ignore, Ignore,
       Ignore, Ignore, Tk("Tempo", <<100>>), Ignore>>,
     <<Tk("Family", "Metric"), Ignore, Ignore, Ignore, Ignore, Ignore,
       Tk("Rest", <<1, 0, 1>>), Ignore, Ignore>>}

\* time steps given to the interleaved decoder, their BarPosEnc sub-field
\* inside (0) or past (2) the bar embeddings of the vocabulary
MuFrameTokens ==
    {<<first, Tk("BarPosEnc", <<b>>), Tk("PositionPosEnc", None), Tk("Tempo", <<120>>)>> :
        first \in {Tk("Bar", None), Tk("Position", <<1>>), Tk("Program", <<0>>)},
        b \in {0, 2}}
    \cup {<<Tk("Pitch", <<60>>), Tk("BarPosEnc", <<b>>), Tk("PositionPosEnc", <<0>>),
            Tk("Tempo", <<120>>), Tk("Velocity", <<80>>), Tk("Duration", <<1, 0, 1>>)>> :
        b \in {0, 2}}

\* one more token is given
FramePredict ==
    /\ pc = "predicting"
    /\ \/ /\ tokenizer = "CPWord" /\ Len(tokens[1]) < MaxFrameTokens
          /\ \E tok \in CPFrameTokens : tokens' = <<Append(tokens[1], tok)>>
       \/ /\ tokenizer = "MuMIDI" /\ Len(tokens) < MaxFrameTokens
          /\ \E tok \in MuFrameTokens : tokens' = Append(tokens, tok)
    /\ UNCHANGED <<Self, Vocabulary, pc, dec, decoded, raised, Unused>>

NextFrame ==
    \/ FramePredict
    \/ CPDecodeCall \/ CPDecodeToken \/ CPDecodeReturn
    \/ MuDecodeCall \/ MuDecodeToken \/ MuDecodeReturn

SpecFrame == InitDecode /\ [][NextFrame]_vars

\* a step of a decode call
DecodeStep == dec' # dec \/ decoded' # decoded \/ pc' \in {"decoding", "decoded", "raised"}

\* C25: decoding never grows the vocabulary: no step of an interleaved or of
\* a pooled decode call changes max_bar_embedding or a sub-vocabulary,
\* whatever the sequence, one whose BarPosEnc values or whose number of Bar
\* tokens exceed max_bar_embedding included.
C25_DecodeKeepsVocabulary ==
    [][DecodeStep => UNCHANGED <<max_bar_embedding, vocab>>]_vars

\* the interleaved decoder has returned from a sequence that reaches bar 2
\* with BarPosEnc_2 in it, the vocabulary holding BarPosEnc_0 alone
C25_Witness ==
    /\ tokenizer = "MuMIDI" /\ pc = "decoded"
    /\ dec.current_bar >= max_bar_embedding
    /\ \E k \in 1..Len(tokens) : tokens[k][2].value[1] >= max_bar_embedding
    /\ max_bar_embedding = 1
    /\ vocab = BaseBarPosEnc(1)

-----------------------------------------------------------------------------
(* The grid of the decoder against the grid of the encoder *)

\* the decoder's locals after the first k of the tokens `all_events`
Replay(all_events, k) ==
    LET toks == complete_sequence(all_events)
    IN  DecodeSeq(SeqStart(TokensToMidiInit(time_division, None), toks),
                  SubSeq(toks, 1, k))

Grid(s) == <<s.current_bar, s.tick_at_current_bar, s.ticks_per_bar>>

\* the loop turn from s to t on `event`: the decoder after each token the
\* turn emitted against the encoder at that token
MirrorsTurn(s, t, event) ==
    LET s0 == IF event.type_ = "Tempo"
              THEN [s EXCEPT !.current_tempo = event.value[1]] ELSE s
        r == RestPart(s0, event)
        b == BarPart(r, event)
        n0 == Len(s.all_events)
        nr == Len(r.all_events)
        nb == Len(b.all_events)
        timed == event.type_ # "Program" /\ event.time # s.previous_tick
        bar(i) == r.current_bar + i
    IN  timed =>
          /\ nr > n0 => Grid(Replay(t.all_events, nr)) = Grid(r)
          /\ \A i \in 1..(nb - nr) :
                Grid(Replay(t.all_events, nr + i))
                    = <<bar(i),
                        r.tick_at_last_ts_change
                            + (bar(i) - r.bar_at_last_ts_change) * r.ticks_per_bar,
                        IF i = nb - nr THEN t.ticks_per_bar ELSE r.ticks_per_bar>>
          /\ event.type_ # "TimeSig" =>
                Replay(t.all_events, nb + 1).current_tick = event.time

Turn == pc = "add_time_events" /\ pc' = "add_time_events" /\ enc'.e = enc.e + 1

\* C26: the pooled decoder mirrors the grid of the pooled encoder: in every
\* encode pass whose time-signature changes are on bar boundaries, rests and
\* time signatures not both enabled, the decoder given the tokens emitted has
\* after each Bar or Rest token the current_bar, tick_at_current_bar and
\* ticks_per_bar of the encoder at that token, and after each Position token
\* the tick of the event the token was emitted for.
C26_DecoderMirrorsEncoder ==
    [][(/\ Turn
        /\ TimeSigsOnBars(midi)
        /\ ~(config.use_rests /\ config.use_time_signatures))
            => MirrorsTurn(enc, enc', events[enc.e])]_vars

-----------------------------------------------------------------------------
(* One Bar token per elapsed bar *)

\* the encoder at the Bar block of the loop turn from s on `event`
AtBarBlock(s, event) ==
    RestPart(IF event.type_ = "Tempo"
             THEN [s EXCEPT !.current_tempo = event.value[1]] ELSE s,
             event)

\* the bars between the bar cursor and the event
BarsAhead(r, event) ==
    r.bar_at_last_ts_change
        + (event.time - r.tick_at_last_ts_change) \div r.ticks_per_bar
        - r.current_bar

IsBar(cp_token) == cp_token[1].value = "Metric" /\ cp_token[2].type_ = "Bar"

\* the TimeSig sub-field of a compound token of the encoder
TimeSigOf(cp_token) == cp_token[vocab_types_idx("TimeSig") + 1].value

\* the loop turn from s to t on `event`, k bars after the bar cursor: the
\* first tokens emitted from the Bar block on are k Bar tokens
BarPerBar(s, t, event) ==
    LET r == AtBarBlock(s, event)
        k == BarsAhead(r, event)
        n == Len(r.all_events)
    IN  (event.type_ # "Program" /\ k >= 1) =>
          /\ Len(t.all_events) >= n + k
          /\ \A i \in 1..k : IsBar(t.all_events[n + i])
          /\ \A i \in (n + k + 1)..Len(t.all_events) : ~IsBar(t.all_events[i])
          /\ t.current_bar = r.current_bar + k
          /\ config.use_time_signatures =>
                \A i \in 1..k :
                    TimeSigOf(t.all_events[n + i])
                        = IF i = k /\ event.type_ = "TimeSig" THEN event.value
                          ELSE s.current_time_sig

\* the Bar tokens emitted so far
BarCount(all_events) ==
    Cardinality({i \in 1..Len(all_events) : IsBar(all_events[i])})

-----------------------------------------------------------------------------
(* TimeSig events and the Position tokens *)

IsPosition(cp_token) == cp_token[1].value = "Metric" /\ cp_token[2].type_ = "Position"

\* the tokens a loop turn from s to t appended
NewTokens(s, t) == SubSeq(t.all_events, Len(s.all_events) + 1, Len(t.all_events))

\* the loop turn of a TimeSig event: no Position token; the Rest and Bar
\* tokens of its tick are those of the grid in force before it, and the grid
\* anchor moves to its tick
TimeSigTurn(s, t, event) ==
    LET old == IF event.time = s.previous_tick THEN s
               ELSE BarPart(RestPart(s, event), event)
    IN  /\ \A i \in 1..Len(NewTokens(s, t)) : ~IsPosition(NewTokens(s, t)[i])
        /\ t.all_events = old.all_events
        /\ t.current_bar = old.current_bar
        /\ t.tick_at_current_bar = old.tick_at_current_bar
        /\ t.bar_at_last_ts_change
              = s.bar_at_last_ts_change
                  + (event.time - s.tick_at_last_ts_change) \div s.ticks_per_bar
        /\ t.tick_at_last_ts_change = event.time
        /\ t.ticks_per_bar = compute_ticks_per_bar(event.value, time_division)

\* the event at index e follows a TimeSig event, Program events apart
AfterTimeSig(e) ==
    \E j \in 1..(e - 1) :
        /\ events[j].type_ = "TimeSig"
        /\ \A i \in (j + 1)..(e - 1) : events[i].type_ = "Program"

EmitsPosition(s, t) ==
    \E i \in 1..Len(NewTokens(s, t)) : IsPosition(NewTokens(s, t)[i])

\* C28: pooled encode: a TimeSig event emits no Position token for itself and
\* moves the grid (bar_at_last_ts_change, tick_at_last_ts_change,
\* ticks_per_bar) only after the Rest and Bar tokens of its own tick; the
\* next event that is neither a Program nor a TimeSig event always emits a
\* Position token, even at the tick of the TimeSig event and after a
\* Position token of that tick.
C28_PositionAfterTimeSig ==
    [][Turn =>
        /\ events[enc.e].type_ = "TimeSig"
              => TimeSigTurn(enc, enc', events[enc.e])
        /\ (events[enc.e].type_ \notin {"Program", "TimeSig"} /\ AfterTimeSig(enc.e))
              => EmitsPosition(enc, enc')]_vars

\* a note, then a TimeSig event and a note at the same tick: the second note
\* has just emitted the second Position token of the tick
C28_Witness ==
    /\ pc = "add_time_events" /\ enc.e = 6
    /\ events[1].type_ = "Pitch" /\ events[4].type_ = "TimeSig"
    /\ events[5].type_ = "Pitch"
    /\ events[1].time = events[4].time /\ events[4].time = events[5].time
    /\ Cardinality({i \in 1..Len(enc.all_events) :
                        /\ IsPosition(enc.all_events[i])
                        /\ enc.all_events[i][1].time = events[5].time}) = 2
    /\ IsPosition(enc.all_events[Len(enc.all_events) - 1])

-----------------------------------------------------------------------------
(* The decoder on Rest and Bar tokens *)

\* number of tokens of a sequence of Bar, Rest, Position and Note tokens
MaxBarTokens == 4

\* compound tokens (Family, Bar/Position, Pitch, Velocity, Duration, Rest,
\* Tempo, TimeSig): Bar tokens of three time signatures, Rest tokens of one
\* and two beats, a Position token, a Note token of two beats
BarRestTokens ==
    {<<Tk("Family", "Metric"), Tk("Bar", None), Ignore, Ignore, Ignore,
       Ignore, Ignore, Tk("TimeSig", ts)>> : ts \in {<<4, 4>>, <<2, 4>>, <<1, 4>>}}
    \cup {<<Tk("Family", "Metric"), Ignore, Ignore, Ignore, Ignore,
            Tk("Rest", r), Ignore, Ignore>> : r \in {<<1, 0, 1>>, <<2, 0, 1>>}}
    \cup {<<Tk("Family", "Metric"), Tk("Position", <<1>>), Ignore, Ignore, Ignore,
            Ignore, Tk("Tempo", <<100>>), Ignore>>,
          <<Tk("Family", "Note"), Ignore, Tk("Pitch", <<60>>), Tk("Velocity", <<80>>),
            Tk("Duration", <<2, 0, 1>>), Ignore, Ignore, Ignore>>}

\* tokenizer(tokens) on one sequence: _tokens_to_midi up to the loop over its
\* tokens
BarRestDecodeCall ==
    /\ pc = "idle"
    /\ \E toks \in SeqsUpTo(BarRestTokens, MaxBarTokens) :
          /\ tokens' = <<toks>>
          /\ Called(SeqStart(TokensToMidiInit(time_division, None), toks))

NextBarRest == BarRestDecodeCall \/ CPDecodeToken \/ CPDecodeReturn

SpecBarRest == InitMulti /\ [][NextBarRest]_vars

\* the loop turn of the decoder on the token at index dec.i
DecodeTurn == pc = "decoding" /\ pc' = "decoding" /\ dec'.i = dec.i + 1

IsRestToken(compound_token) ==
    /\ Family(compound_token) = "Metric"
    /\ Field(compound_token, 1).type \notin {"Bar", "Position"}
    /\ Field(compound_token, vocab_types_idx("Rest")).value # None

RestLength(compound_token) ==
    token_duration_to_ticks(Field(compound_token, vocab_types_idx("Rest")).value,
                            time_division)

\* what the decoder has appended to
Lists(d) == <<d.current_instrument, d.tracks, d.tempo_changes, d.time_signature_changes>>

\* the loop turn from d to e on a Rest token
RestTurn(d, e, compound_token) ==
    LET tick == Max(d.previous_note_end, d.current_tick) + RestLength(compound_token)
        real_current_bar ==
            d.bar_at_last_ts_change
                + (tick - d.tick_at_last_ts_change) \div d.ticks_per_bar
        bars == real_current_bar - Max(d.current_bar, 0)
    IN  /\ e.current_tick = tick
        /\ e.current_bar = Max(d.current_bar, real_current_bar)
        /\ e.tick_at_current_bar
              = IF real_current_bar > d.current_bar
                THEN d.tick_at_current_bar + bars * d.ticks_per_bar
                ELSE d.tick_at_current_bar
        /\ Lists(e) = Lists(d)

\* the decoder's locals after the first k tokens of the sequence given
AfterTokens(k) ==
    DecodeSeq(SeqStart(TokensToMidiInit(time_division, None), tokens[1]),
              SubSeq(tokens[1], 1, k))

\* the Rest tokens j + 1 .. k in a row move the tick by the sum of their lengths
RestsAddUp ==
    \A j \in 0..Len(tokens[1]), k \in 0..Len(tokens[1]) :
        (j < k /\ \A i \in (j + 1)..k : IsRestToken(tokens[1][i])) =>
            AfterTokens(k).current_tick
                = Max(AfterTokens(j).previous_note_end, AfterTokens(j).current_tick)
                    + SumSeq([i \in 1..(k - j) |-> RestLength(tokens[1][j + i])])

\* C29: pooled decode of a Rest token sets current_tick to
\* max(previous_note_end, current_tick) + the length of the rest, raises
\* current_bar to bar_at_last_ts_change + (current_tick -
\* tick_at_last_ts_change) div ticks_per_bar when that is larger (a cursor
\* of -1 counting as 0), moves tick_at_current_bar forward by that many whole
\* bars, and appends nothing to the tracks, the tempo list or the
\* time-signature list; Rest tokens in a row move the tick by the sum of
\* their lengths.
C29_RestAdvancesTick ==
    /\ [][(DecodeTurn /\ IsRestToken(tokens[1][dec.i]))
            => RestTurn(dec, dec', tokens[1][dec.i])]_vars
    /\ [](pc = "decoded" => RestsAddUp)

\* a note of two beats at tick 0, then rests of one and two beats: the cursor
\* is at tick 5, in bar 1 of the 4/4 grid
C29_Witness ==
    /\ pc = "decoded" /\ Len(tokens[1]) = 3
    /\ Family(tokens[1][1]) = "Note"
    /\ IsRestToken(tokens[1][2]) /\ RestLength(tokens[1][2]) = 1
    /\ IsRestToken(tokens[1][3]) /\ RestLength(tokens[1][3]) = 2
    /\ dec.current_tick = 5
    /\ dec.current_bar = 1 /\ dec.tick_at_current_bar = 4

-----------------------------------------------------------------------------
(* The decoder on Bar tokens and the time-signature list *)

IsBarToken(compound_token) ==
    Family(compound_token) = "Metric" /\ Field(compound_token, 1).type = "Bar"

\* the loop turn from d to e on a Bar token
BarTurn(d, e, compound_token) ==
    LET ts == Field(compound_token, vocab_types_idx("TimeSig")).value
        tick == IF d.current_bar = -1 THEN 0
                ELSE d.tick_at_current_bar + d.ticks_per_bar
        differs == ts[1] # d.current_time_sig[2] \/ ts[2] # d.current_time_sig[3]
    IN  /\ e.current_bar = d.current_bar + 1
        /\ e.current_tick = tick
        /\ e.tick_at_current_bar = tick
        /\ e.time_signature_changes
              = IF differs THEN Append(d.time_signature_changes, <<tick>> \o ts)
                ELSE d.time_signature_changes

\* a list of changes <<tick, numerator, denominator>>: the first one at tick
\* 0, the ticks ascending, no signature twice in a row
WellFormedChanges(list) ==
    /\ list # <<>>
    /\ list[1][1] = 0
    /\ \A k \in 1..(Len(list) - 1) :
          /\ list[k][1] < list[k + 1][1]
          /\ <<list[k][2], list[k][3]>> # <<list[k + 1][2], list[k + 1][3]>>

\* C30: pooled decode of a Bar token increments current_bar and moves
\* current_tick to tick_at_current_bar + ticks_per_bar (tick 0 for the first
\* bar), and records a time-signature change only when the numerator or the
\* denominator of the token differs from the signature in force; hence in
\* every decoded time-signature list the first entry is at tick 0, the ticks
\* are strictly increasing and no two consecutive entries have the same
\* signature.
C30_BarAdvancesGrid ==
    /\ [][(DecodeTurn /\ IsBarToken(tokens[1][dec.i]))
            => BarTurn(dec, dec', tokens[1][dec.i])]_vars
    /\ [](pc = "decoded" => WellFormedChanges(decoded.time_signatures))

-----------------------------------------------------------------------------
(* The decoder on the Tempo sub-field of Position tokens *)

IsPositionToken(compound_token) ==
    Family(compound_token) = "Metric" /\ Field(compound_token, 1).type = "Position"

TempoOf(compound_token) == Field(compound_token, vocab_types_idx("Tempo")).value[1]

\* the tick a Position token puts the cursor at
TickOf(d, compound_token) ==
    d.tick_at_current_bar + Field(compound_token, 1).value[1] * d.ticks_per_sample

\* the loop turn from d to e on a Position token: a change is appended exactly
\* for another tempo than the last one recorded at another tick than its tick
TempoTurn(d, e, compound_token) ==
    LET last == Last(d.tempo_changes)
        tick == TickOf(d, compound_token)
        tempo == TempoOf(compound_token)
    IN  e.tempo_changes
          = IF tempo # last[2] /\ tick # last[1]
            THEN Append(d.tempo_changes, <<tick, tempo>>)
            ELSE d.tempo_changes

\* the loop turn from d to e on a Position token: another tempo than the last
\* one recorded is recorded at the tick of the token
TempoRecorded(d, e, compound_token) ==
    TempoOf(compound_token) # Last(d.tempo_changes)[2] =>
        Last(e.tempo_changes) = <<TickOf(d, compound_token), TempoOf(compound_token)>>

\* no two entries in a row of a list of <<tick, tempo>> have the same tempo
NoTempoTwice(list) ==
    \A k \in 1..(Len(list) - 1) : list[k][2] # list[k + 1][2]

OnPosition ==
    DecodeTurn /\ config.use_tempos /\ dec.si = 1 /\ IsPositionToken(tokens[1][dec.i])

\* C31 as stated: a Position token appends a tempo change at its tick exactly
\* when its tempo differs from the last one recorded and its tick from the
\* tick of that entry; every tempo that differs from the last one recorded is
\* recorded at the tick of the first Position token that carries it, and no
\* two consecutive entries of the decoded list share a value.
C31_EveryTempoRecorded ==
    /\ [][OnPosition =>
            /\ TempoTurn(dec, dec', tokens[1][dec.i])
            /\ TempoRecorded(dec, dec', tokens[1][dec.i])]_vars
    /\ [](pc = "decoded" => NoTempoTwice(decoded.tempos))

\* C31: a Position token appends a tempo change at its tick exactly when its
\* tempo differs from the last one recorded and its tick from the tick of
\* that entry, so a differing tempo is recorded at the tick of the first
\* Position token that carries it at another tick than that of the last
\* entry; no two consecutive entries of the decoded list share a value.
C31_TempoDeduplicated ==
    /\ [][OnPosition => TempoTurn(dec, dec', tokens[1][dec.i])]_vars
    /\ [](pc = "decoding" => NoTempoTwice(dec.tempo_changes))
    /\ [](pc = "decoded" => NoTempoTwice(decoded.tempos))

\* Position tokens at tick 0 with the tempos 100 and 120, then one at tick 1
\* with the tempo 120: the second one is dropped, 120 is recorded at tick 1
C31_Witness ==
    /\ pc = "decoded" /\ Len(tokens[1]) = 3
    /\ \A k \in 1..3 : IsPositionToken(tokens[1][k])
    /\ Field(tokens[1][1], 1).value = <<0>> /\ TempoOf(tokens[1][1]) = 100
    /\ Field(tokens[1][2], 1).value = <<0>> /\ TempoOf(tokens[1][2]) = 120
    /\ Field(tokens[1][3], 1).value = <<1>> /\ TempoOf(tokens[1][3]) = 120
    /\ decoded.tempos = << <<0, 100>>, <<1, 120>> >>

-----------------------------------------------------------------------------
(* The position cursor of the CPWord validator *)

\* length of a sequence given to the validator
MaxCursorTokens == 5

\* compound tokens (Family, Bar/Position, Pitch, Velocity, Duration, Rest): a
\* Bar, two Position values, a Note and a Rest token
CursorTokens ==
    {<<Tk("Family", "Metric"), first, Ignore, Ignore, Ignore, Ignore>> :
        first \in {Tk("Bar", None), Tk("Position", <<0>>), Tk("Position", <<1>>)}}
    \cup {<<Tk("Family", "Note"), Ignore, Tk("Pitch", <<60>>), Tk("Velocity", <<80>>),
            Tk("Duration", <<1, 0, 1>>), Ignore>>}
    \cup {<<Tk("Family", "Metric"), Ignore, Ignore, Ignore, Ignore,
            Tk("Rest", <<1, 0, 1>>)>>}

InitCursor == InitCheck /\ tokenizer = "CPWord"

CursorErrorsCall ==
    /\ tokenizer = "CPWord" /\ pc = "idle"
    /\ \E toks \in SeqsUpTo(CursorTokens, MaxCursorTokens) :
          /\ tokens' = <<toks>>
          /\ Checking(CPTokensErrorsEntry(toks))

NextCursor == CursorErrorsCall \/ CPErrorsToken \/ CPErrorsReturn

SpecCursor == InitCursor /\ [][NextCursor]_vars

TypeAt(toks, k) == cp_token_type(toks[k]).type

ValueAt(toks, k) == cp_token_type(toks[k]).value[1]

\* the token at index k (from 2, the first one the loop reads) has a type
\* that may follow the type of the token before it
LegalAt(toks, k) ==
    InList(TypeAt(toks, k), cp_token_types_graph[TypeAt(toks, k - 1)])

\* the last accepted Position value among the tokens 2..k since the most
\* recent Bar token that was a legal successor, -1 when there is none
RECURSIVE LastAccepted(_, _)
LastAccepted(toks, k) ==
    IF k < 2 THEN -1
    ELSE LET last == LastAccepted(toks, k - 1)
         IN  IF ~LegalAt(toks, k) THEN last
             ELSE IF TypeAt(toks, k) = "Bar" THEN -1
             ELSE IF TypeAt(toks, k) = "Position"
                     /\ ~(ValueAt(toks, k) <= last /\ TypeAt(toks, k - 1) # "Rest")
             THEN ValueAt(toks, k)
             ELSE last

\* a turn of the loop of the validator
CheckTurn ==
    /\ tokenizer = "CPWord"
    /\ pc = "tokens_errors" /\ pc' = "tokens_errors" /\ val'.i = val.i + 1

NoPitches == [p \in config.programs |-> <<>>]

\* the turn from v to w on the Position token at index k
PositionTurn(toks, k, v, w) ==
    LET last == LastAccepted(toks, k - 1)
        behind == ValueAt(toks, k) <= last /\ TypeAt(toks, k - 1) # "Rest"
    IN  /\ w.err = v.err + (IF behind THEN 1 ELSE 0)
        /\ behind => w.current_pos = v.current_pos
                     /\ w.current_pitches = v.current_pitches
        /\ ~behind => w.current_pos = ValueAt(toks, k)
                      /\ w.current_pitches = NoPitches

\* the turn from v to w on the Bar token at index k
BarResets(v, w) ==
    w.err = v.err /\ w.current_pos = -1 /\ w.current_pitches = NoPitches

\* a legal Bar token lies before index k with no Position token after it
AcrossBar(toks, k) ==
    \E j \in 2..(k - 1) :
        /\ TypeAt(toks, j) = "Bar" /\ LegalAt(toks, j)
        /\ \A m \in (j + 1)..(k - 1) : TypeAt(toks, m) # "Position"

\* C32: a Position token whose type is a legal successor adds one error
\* exactly when its value is <= the last accepted Position value since the
\* most recent Bar token and the token before it is not a Rest, and else
\* becomes the cursor and clears the active pitches; a Bar token that is a
\* legal successor resets the cursor to -1 and clears the active pitches, and
\* a Position value that repeats across a Bar token is never counted.
C32_PositionCursor ==
    [][CheckTurn /\ LegalAt(tokens[1], val.i) =>
        /\ val.current_pos = LastAccepted(tokens[1], val.i - 1)
        /\ TypeAt(tokens[1], val.i) = "Position" =>
              PositionTurn(tokens[1], val.i, val, val')
        /\ TypeAt(tokens[1], val.i) = "Bar" => BarResets(val, val')
        /\ (TypeAt(tokens[1], val.i) = "Position" /\ AcrossBar(tokens[1], val.i)) =>
              val'.err = val.err]_vars

\* Note, Position_1, Note, Bar, Position_1: nothing is counted
C32_Witness ==
    /\ tokenizer = "CPWord" /\ pc = "checked" /\ Len(tokens[1]) = 5
    /\ TypeAt(tokens[1], 1) = "Pitch"
    /\ TypeAt(tokens[1], 2) = "Position" /\ ValueAt(tokens[1], 2) = 1
    /\ TypeAt(tokens[1], 3) = "Pitch"
    /\ TypeAt(tokens[1], 4) = "Bar"
    /\ TypeAt(tokens[1], 5) = "Position" /\ ValueAt(tokens[1], 5) = 1
    /\ val.err = 0 /\ val.current_pos = 1

-----------------------------------------------------------------------------
(* The time-signature changes in the tokens of the pooled encoder *)

\* the locals of the encode loop after the first k events
RECURSIVE EncAfter(_, _)
EncAfter(evs, k) ==
    IF k = 0 THEN AddTimeEventsInit(evs)
    ELSE AddTimeEventsStep(EncAfter(evs, k - 1), evs)

\* the event at index n is the next one after index j that is neither a
\* TimeSig nor a Program event
NextTimed(j, n) ==
    /\ j < n
    /\ events[n].type_ \notin {"TimeSig", "Program"}
    /\ \A i \in (j + 1)..(n - 1) : events[i].type_ \in {"TimeSig", "Program"}

\* the TimeSig event at index j changes the signature in force
ChangesTimeSig(j) ==
    /\ events[j].type_ = "TimeSig"
    /\ events[j].value # EncAfter(events, j - 1).current_time_sig

\* a Bar token with the signature of the event at index j is among the tokens
\* emitted from that event to the event at index n
BarCarries(j, n) ==
    LET from == Len(EncAfter(events, j - 1).all_events) + 1
        upto == EncAfter(events, n).all_events
    IN  \E k \in from..Len(upto) :
            IsBar(upto[k]) /\ TimeSigOf(upto[k]) = events[j].value

\* C33: with time signatures enabled and rests disabled, for every TimeSig
\* event whose signature differs from the one in force, a Bar token with the
\* new signature is emitted before the Position token of the next event that
\* is not a TimeSig event, whatever events share its tick, in any order.
C33_NoTimeSigLost ==
    (pc = "add_time_events" /\ config.use_time_signatures /\ ~config.use_rests) =>
        /\ enc = EncAfter(events, enc.e - 1)
        /\ \A j \in 1..(enc.e - 1) :
              (ChangesTimeSig(j) /\ NextTimed(j, enc.e - 1)) =>
                  BarCarries(j, enc.e - 1)

-----------------------------------------------------------------------------
(* The anchor of the grid of the pooled encoder *)

\* the start of the current bar counted from the last time-signature change
Anchored(s) ==
    s.tick_at_current_bar
        = s.tick_at_last_ts_change
            + (s.current_bar - s.bar_at_last_ts_change) * s.ticks_per_bar

\* C34: after every event of a pooled encode pass in which current_bar >= 0,
\* tick_at_current_bar = tick_at_last_ts_change + (current_bar -
\* bar_at_last_ts_change) * ticks_per_bar and tick_at_current_bar is not
\* beyond the tick of the event, for every time-ascending event stream.
C34_GridAnchored ==
    (pc = "add_time_events" /\ enc.e > 1 /\ enc.current_bar >= 0) =>
        /\ Anchored(enc)
        /\ enc.tick_at_current_bar <= events[enc.e - 1].time

-----------------------------------------------------------------------------
(* The bar indexes the MuMIDI encoder writes, notes of no length included *)

\* number of notes of a piece, and the last tick a note starts at
MaxZeroItems == 2
MaxZeroTick == 8

\* notes of track 1, <<pitch, velocity, length in ticks>>, of length 0 and 1
ZeroShapes == {<<60, 80, 0>>, <<62, 100, 1>>}

ZeroItemsAt(t) ==
    {[kind |-> "Note", time |-> t, value |-> n, track |-> 1, chord |-> FALSE] :
        n \in ZeroShapes}

\* the lists of at most n notes, in time order from tick t on
RECURSIVE ZeroPieces(_, _)
ZeroPieces(n, t) ==
    IF n = 0 THEN {<<>>}
    ELSE {<<>>} \cup
         UNION {{<<it>> \o rest : rest \in ZeroPieces(n - 1, it.time)} :
                    it \in UNION {ZeroItemsAt(u) : u \in t..MaxZeroTick}}

InitZero == InitMuWith({<<MuConfig(FALSE, FALSE), 1>>})

ZeroEncodeCall ==
    /\ tokenizer = "MuMIDI" /\ pc = "idle" /\ calls = 0
    /\ \E items \in ZeroPieces(MaxZeroItems, 0) :
          LET piece == MuScore(items)
              grown == GrowVocab(vocab, max_bar_embedding, NumBars(piece))
          IN  /\ midi' = piece
              /\ vocab' = grown[1]
              /\ max_bar_embedding' = grown[2]
              /\ events' = SortedNoteTokens(piece)
              /\ enc' = MidiToTokensInit(piece)
    /\ pc' = "midi_to_tokens"
    /\ calls' = calls + 1
    /\ UNCHANGED <<Self, tokens, dec, decoded, val, raised>>

NextZero == ZeroEncodeCall \/ MuMidiToTokens \/ MuEncodeReturn

SpecZero == InitZero /\ [][NextZero]_vars

\* C35: every BarPosEnc value the interleaved encoder writes into a token is
\* in sub-vocabulary 1 when encode returns: for every piece whose notes end
\* at or after their start, a last note of no length on a bar boundary
\* included, the largest bar index emitted is below max_bar_embedding.
C35_BarIndexInVocabulary ==
    (tokenizer = "MuMIDI" /\ pc = "encoded") =>
        \A k \in 1..Len(tokens) :
            /\ tokens[k][2].value[1] < max_bar_embedding
            /\ InList(tokens[k][2], vocab)

-----------------------------------------------------------------------------
(* The argument of the CPWord decoder, decoded twice *)

\* length of a token sequence of the argument, and number of decode calls
\* on one argument
MaxArgTokens == 2
MaxArgCalls == 2

\* CPWord in multi-sequence mode and in single-stream mode (with programs)
ArgSetups ==
    {<<MultiConfig, 1>>, <<CPConfig(TRUE, FALSE, TRUE, TRUE, TRUE), 1>>}

InitArg == InitWith(ArgSetups)

\* a TokSequence object holding the compound tokens toks
TokSequence(toks) == [cls |-> "TokSequence", tokens |-> toks]

\* the caller builds the argument: a list of two TokSequence objects in
\* multi-sequence mode, one TokSequence in single-stream mode; `tokens` holds
\* the members of the list, respectively the one object
ArgBuild ==
    /\ pc = "idle"
    /\ IF one_token_stream
       THEN \E toks \in SeqsUpTo(CPVocabTokens, MaxArgTokens) :
               tokens' = <<TokSequence(toks)>>
       ELSE \E first \in SeqsUpTo(MultiTokens, MaxArgTokens),
               later \in SeqsUpTo(MultiTokens, MaxArgTokens) :
               tokens' = <<TokSequence(first), TokSequence(later)>>
    /\ pc' = "built"
    /\ UNCHANGED <<Self, Vocabulary, dec, decoded, raised, Unused>>

\* `tokens = [tokens]` and `tokens[i] = tokens[i].tokens`: in single-stream
\* mode the loop writes into a new list around the argument; in
\* multi-sequence mode it writes into the list of the caller. An item that
\* is no TokSequence has no attribute `tokens`. The result is the list of
\* the caller after the loop, the sequences to decode, and the exception.
Unsqueeze(arg) ==
    LET lists == {i \in 1..Len(arg) : arg[i].cls # "TokSequence"}
        stop == IF lists = {} THEN Len(arg) + 1
                ELSE CHOOSE i \in lists : \A j \in lists : i <= j
    IN  [arg |-> IF one_token_stream THEN arg
                 ELSE [i \in 1..Len(arg) |->
                         IF i < stop THEN [cls |-> "list", tokens |-> arg[i].tokens]
                         ELSE arg[i]],
         seqs |-> [i \in 1..Len(arg) |-> arg[i].tokens],
         exc |-> IF lists = {} THEN "" ELSE "AttributeError"]

\* _tokens_to_midi(tokens) on the argument the caller holds
ArgDecode ==
    /\ pc \in {"built", "decoded", "raised"} /\ calls < MaxArgCalls
    /\ LET u == Unsqueeze(tokens)
           d == IF u.exc # "" THEN [exc |-> u.exc]
                ELSE DecodeSeqs(TokensToMidiInit(time_division, None), u.seqs)
       IN  /\ tokens' = u.arg
           /\ dec' = d
           /\ decoded' = IF d.exc = "" THEN TokensToMidiReturn(d) ELSE Idle
           /\ raised' = d.exc
           /\ pc' = IF d.exc = "" THEN "decoded" ELSE "raised"
    /\ calls' = calls + 1
    /\ UNCHANGED <<Self, Vocabulary, events, midi, enc, val>>

NextArg == ArgBuild \/ ArgDecode

SpecArg == InitArg /\ [][NextArg]_vars

DecodeCalled == calls' = calls + 1

\* C36: pooled decode does not modify its argument: after decode returns or
\* raises, in single-stream and in multi-sequence mode, the list of token
\* sequences of the caller and each TokSequence in it are as before the
\* call, so decoding the same argument a second time returns the same piece.
C36_ArgumentUnchanged ==
    [][DecodeCalled =>
        /\ tokens' = tokens
        /\ calls = 1 => (decoded' = decoded /\ raised' = raised)]_vars

-----------------------------------------------------------------------------
(* The validators on every sequence of tokens *)

\* C37: both validators are total: for every sequence of tokens of the
\* vocabulary, the empty sequence and (pooled scheme) a Metric token whose
\* sub-fields are all absent included, the validator returns an error count
\* and does not raise.
C37_ValidatorsTotal == pc # "raised" /\ raised = ""

-----------------------------------------------------------------------------
(* The Rest and Ignore types in the grammar graph of CPWord *)

\* the types that may follow a type of the graph
Successors(type) ==
    {cp_token_types_graph[type][k] : k \in 1..Len(cp_token_types_graph[type])}

RestIsNode == "Rest" \in DOMAIN cp_token_types_graph

\* Rest is in the graph, as a node or as a successor of a node
RestEdge ==
    RestIsNode \/ \E type \in DOMAIN cp_token_types_graph : "Rest" \in Successors(type)

\* every type may be followed by Ignore, and Ignore by every other type
IgnoreEverywhere ==
    /\ \A type \in DOMAIN cp_token_types_graph \ {"Ignore"} :
          "Ignore" \in Successors(type)
    /\ Successors("Ignore") = DOMAIN cp_token_types_graph \ {"Ignore"}

\* C38: in the pooled grammar graph Rest is a node, and a legal successor of
\* Pitch, if and only if use_rests is enabled; with use_rests disabled no
\* Rest edge exists whatever use_chords and use_tempos are. In every
\* configuration each type has Ignore as a legal successor and Ignore has
\* every other type, but not Ignore, as a legal successor.
C38_RestOnlyWithRests ==
    /\ RestIsNode <=> config.use_rests
    /\ "Rest" \in Successors("Pitch") <=> config.use_rests
    /\ ~config.use_rests => ~RestEdge
    /\ IgnoreEverywhere

====
